---------------------------- MODULE Spec2Model ----------------------------
(***************************************************************************)
(* Customer-query router: classification (AI call with keyword fallback),  *)
(* the routing decision, the ticket store with its event log, and the      *)
(* learning system that writes the pattern store.                          *)
(*                                                                         *)
(* Confidences are kept in hundredths (0.6 is 60): every confidence the    *)
(* code computes (0.5 + 0.05*score, count/10, count/5, the literals) is a  *)
(* whole number of hundredths and the comparisons with 0.6 agree.          *)
(***************************************************************************)
EXTENDS Integers, Sequences, FiniteSets, TLC

VARIABLES
    rIn,                \* arguments of one _make_routing_decision call
    rOut,               \* its result, NoValue before the call
    cIn,                \* subject, message and the AI call's outcome for one classify_intent call
    cOut,               \* its outcome, NoValue before the call
    team_mapping,       \* IntentClassifier.team_mapping
    learned_keywords,   \* keywords appended to IntentClassifier.intent_categories, per intent
    tickets,            \* table tickets, in insertion order
    routing_log,        \* table routing_log, in insertion order
    learning_feedback,  \* table learning_feedback, in insertion order
    learning_patterns,  \* table learning_patterns, keyed by (type, key, value)
    sqlite_sequence,    \* the largest AUTOINCREMENT id given so far, per table
    now,                \* wall clock, in seconds
    last,               \* the last operation and what it returned to its caller
    saving              \* the calls in flight and their saves, per thread

vars == <<rIn, rOut, cIn, cOut, team_mapping, learned_keywords, tickets,
          routing_log, learning_feedback, learning_patterns, sqlite_sequence, now, last,
          saving>>

NoValue == [none |-> TRUE]

-----------------------------------------------------------------------------
(* Bounds of the model *)

MaxEntities == 2        \* longest key_entities list handed to the routing decision
MaxLen == 4             \* longest message, in tokens, handed to the fallback classification
MaxAiLen == 1           \* longest message, in tokens, handed to classify_intent

-----------------------------------------------------------------------------
(* Closed sets and static tables *)

Intents == <<"kyc_verification", "technical_support", "billing_finance",
             "compliance_regulatory", "sales_inquiry", "general_support">>

IntentSet == {Intents[i] : i \in 1..Len(Intents)}

Urgencies == {"critical", "high", "medium", "low"}

Sentiments == {"neutral", "positive", "negative", "urgent"}

TriageThreshold == 60

escalation_rules(urgency) ==
    CASE urgency = "critical" ->
           [response_time |-> "immediate", notify |-> <<"team_lead", "manager">>,
            auto_escalate |-> TRUE]
      [] urgency = "high" ->
           [response_time |-> "4 hours", notify |-> <<"team_lead">>,
            auto_escalate |-> FALSE]
      [] urgency = "low" ->
           [response_time |-> "48 hours", notify |-> <<>>, auto_escalate |-> FALSE]
      [] OTHER ->   \* "medium", and the .get default for any other urgency
           [response_time |-> "24 hours", notify |-> <<>>, auto_escalate |-> FALSE]

-----------------------------------------------------------------------------
(* Entity strings.  An entity is a string; what the routing decision asks  *)
(* of it is which indicator words occur in its lower-cased text.           *)

EntityPool == {"error_403", "$120 ", "Wrong charge", "system down"}

\* the tokens of three digits that the texts of the model use
ThreeDigitCodes == {"401", "402", "403", "404", "500", "503", "504", "120"}

\* the indicator words that are substrings of the lower-cased entity
LowerSubstrings(e) ==
    CASE e \in {"error_" \o code : code \in ThreeDigitCodes} -> {"error_", "error"}
      [] e = "error_403"    -> {"error_", "error"}
      [] e = "Wrong charge" -> {"wrong"}
      [] e = "system down"  -> {"down"}
      [] e = "Billing dispute" -> {"dispute"}
      [] e = "error_120"    -> {"error_", "error"}
      [] e = "error_500"    -> {"error_", "error"}
      [] OTHER              -> {}

\* indicator in str(key_entities).lower(), and in ' '.join(key_entities).lower()
EntitiesContain(key_entities, indicator) ==
    \E i \in 1..Len(key_entities) : indicator \in LowerSubstrings(key_entities[i])

critical_entities == {"error_", "security", "breach", "down", "blocked"}

dispute_indicators == {"dispute", "discrepancy", "wrong", "incorrect", "error"}

-----------------------------------------------------------------------------
(* RouterAgent._make_routing_decision *)

AdjustUrgency(urgency, sentiment, key_entities) ==
    IF sentiment = "urgent" /\ urgency = "medium" THEN "high"
    ELSE IF sentiment = "negative" /\ urgency = "high"
              /\ \E ce \in critical_entities : EntitiesContain(key_entities, ce)
         THEN "critical"
         ELSE urgency

_get_routing_reasoning(intent, urgency, confidence, needs_review) ==
    << <<"Intent classified as", intent, confidence>>, <<"Urgency level", urgency>> >>
    \o (IF needs_review THEN << <<"Low confidence - routing to triage for manual review">> >>
        ELSE <<>>)
    \o (IF urgency = "critical"
        THEN << <<"Critical urgency - immediate attention required">> >>
        ELSE IF urgency = "high"
             THEN << <<"High urgency - priority handling needed">> >>
             ELSE <<>>)

\* A plausible slip: only negative sentiment taken for a dispute.
BillingOverrideNegativeOnly(intent, assigned_team, sentiment, key_entities) ==
    IF intent = "billing_finance"
       /\ (\/ /\ key_entities # <<>>
              /\ \E ind \in dispute_indicators : EntitiesContain(key_entities, ind)
           \/ sentiment = "negative")
    THEN "Compliance Team"
    ELSE assigned_team

BillingOverride(intent, assigned_team, sentiment, key_entities) ==
    IF intent = "billing_finance"
       /\ (\/ /\ key_entities # <<>>
              /\ \E ind \in dispute_indicators : EntitiesContain(key_entities, ind)
           \/ sentiment \in {"negative", "urgent"})
    THEN "Compliance Team"
    ELSE assigned_team

\* A plausible slip: the billing-dispute override applied after the review gate.
FinalTeamOverrideLast(intent, assigned_team, sentiment, key_entities, needs_review) ==
    BillingOverride(intent, IF needs_review THEN "Triage Team" ELSE assigned_team,
                    sentiment, key_entities)

FinalTeam(intent, assigned_team, sentiment, key_entities, needs_review) ==
    IF needs_review THEN "Triage Team"
    ELSE BillingOverride(intent, assigned_team, sentiment, key_entities)

\* A plausible slip: escalation left to the review gate and the auto_escalate flag.
_make_routing_decision_flag_only(intent, urgency0, confidence, assigned_team, sentiment, key_entities) ==
    LET urgency      == AdjustUrgency(urgency0, sentiment, key_entities)
        escalation   == escalation_rules(urgency)
        needs_review == confidence < TriageThreshold
        additional_teams ==
            IF intent = "technical_support" /\ urgency = "critical" THEN <<"Tech Lead">>
            ELSE IF intent = "compliance_regulatory" THEN <<"Legal Team">>
            ELSE <<>>
    IN  [final_team       |-> FinalTeam(intent, assigned_team, sentiment, key_entities,
                                        needs_review),
         primary_team     |-> assigned_team,
         additional_teams |-> additional_teams,
         escalate         |-> needs_review \/ escalation.auto_escalate,
         needs_review     |-> needs_review,
         response_time    |-> escalation.response_time,
         notify           |-> escalation.notify,
         reasoning        |-> _get_routing_reasoning(intent, urgency, confidence, needs_review)]

_make_routing_decision(intent, urgency0, confidence, assigned_team, sentiment, key_entities) ==
    LET urgency      == AdjustUrgency(urgency0, sentiment, key_entities)
        escalation   == escalation_rules(urgency)
        needs_review == confidence < TriageThreshold
        should_escalate == \/ urgency \in {"critical", "high"}
                           \/ needs_review
                           \/ escalation.auto_escalate
        additional_teams ==
            IF intent = "technical_support" /\ urgency = "critical" THEN <<"Tech Lead">>
            ELSE IF intent = "compliance_regulatory" THEN <<"Legal Team">>
            ELSE <<>>
    IN  [final_team       |-> FinalTeam(intent, assigned_team, sentiment, key_entities,
                                        needs_review),
         primary_team     |-> assigned_team,
         additional_teams |-> additional_teams,
         escalate         |-> should_escalate,
         needs_review     |-> needs_review,
         response_time    |-> escalation.response_time,
         notify           |-> escalation.notify,
         reasoning        |-> _get_routing_reasoning(intent, urgency, confidence, needs_review)]


-----------------------------------------------------------------------------
(* Texts.  A text is a sequence of tokens; inside a subject or a message   *)
(* the tokens are separated by one space, and NL is the "\n" that          *)
(* classify_intent puts between subject and message.  Python's substring   *)
(* test and regular expressions work on characters: what they need to know *)
(* about a token's characters is tabulated for the vocabulary below.       *)

NL == "\n"

\* Python's None where a text is expected (a subject that was not given)
None == <<"<None>">>

\* str.lower() on one token
LowerWord(w) ==
    CASE w = "Dispute" -> "dispute"
      [] w = "Invoice" -> "invoice"
      [] w = "Billing" -> "billing"
      [] w = "Our"     -> "our"
      [] w = "August"  -> "august"
      [] w = "Can"     -> "can"
      [] w = "Error"   -> "error"
      [] OTHER         -> w

lower(text) == [i \in 1..Len(text) |-> LowerWord(text[i])]

\* <<k, w>>: k is a proper prefix of the token w
PrefixPairs == {<<"charge", "charges">>, <<"charge", "charge.">>, <<"dispute", "disputed">>, <<"do", "down">>,
                <<"error", "errors">>, <<"fee", "feedback">>,
                <<"invoice", "invoices">>, <<"issue", "issues">>}

\* <<k, w>>: k is a proper suffix of the token w
SuffixPairs == {<<"id", "valid">>, <<"down", "shutdown">>}

IsPrefix(k, w) == w = k \/ <<k, w>> \in PrefixPairs

IsSuffix(k, w) == w = k \/ <<k, w>> \in SuffixPairs

IsSub(k, w) == IsPrefix(k, w) \/ IsSuffix(k, w)

\* the token starts with a digit (what \d+ needs after \s+)
StartsWithDigit(w) == w \in ThreeDigitCodes \cup {"2", "12"}

\* str.strip(): NL is the only whitespace a text can begin or end with
RECURSIVE lstrip(_)
lstrip(text) ==
    IF text # <<>> /\ Head(text) = NL THEN lstrip(Tail(text)) ELSE text

RECURSIVE rstrip(_)
rstrip(text) ==
    IF text # <<>> /\ text[Len(text)] = NL
    THEN rstrip(SubSeq(text, 1, Len(text) - 1))
    ELSE text

strip(text) == rstrip(lstrip(text))

\* f"{subject or ''}\n{message}".strip()
full_text(subject, message) ==
    strip((IF subject = None THEN <<>> ELSE subject) \o <<NL>> \o message)

\* phrase in text (Python's substring test): the phrase's words lie in
\* consecutive tokens, its first word ending one and its last word starting one
PhraseAt(phrase, text, i) ==
    LET n == Len(phrase)
    IN  /\ i + n - 1 <= Len(text)
        /\ IF n = 1 THEN IsSub(phrase[1], text[i])
           ELSE /\ IsSuffix(phrase[1], text[i])
                /\ \A j \in 2..(n - 1) : text[i + j - 1] = phrase[j]
                /\ IsPrefix(phrase[n], text[i + n - 1])

PhraseIn(phrase, text) == \E i \in 1..Len(text) : PhraseAt(phrase, text, i)

\* re.search(r"\b" + phrase, text): as PhraseAt, the phrase starting a token
RxPhraseAt(phrase, text, i) ==
    LET n == Len(phrase)
    IN  /\ i + n - 1 <= Len(text)
        /\ \A j \in 1..(n - 1) : text[i + j - 1] = phrase[j]
        /\ IsPrefix(phrase[n], text[i + n - 1])

RxPhrase(phrases, text) ==
    \E p \in phrases : \E i \in 1..Len(text) : RxPhraseAt(p, text, i)

\* re.search(r"\b" + phrase + r"\b", text): whole tokens
RxWordsAt(phrase, text, i) ==
    /\ i + Len(phrase) - 1 <= Len(text)
    /\ \A j \in 1..Len(phrase) : text[i + j - 1] = phrase[j]

RxWords(phrase, text) == \E i \in 1..Len(text) : RxWordsAt(phrase, text, i)

\* the token \s+ leads to from token i: the next one, past the NL if it is there
AfterSpace(text, i) ==
    IF i + 1 <= Len(text) /\ text[i + 1] = NL THEN i + 2 ELSE i + 1

\* re.search(r"\b(?:a1|a2|..)\s+(?:b1|b2|..)", text)
RxPair(firsts, seconds, text) ==
    \E a \in firsts : \E i \in 1..Len(text) :
        /\ RxWordsAt(a, text, i)
        /\ \E b \in seconds : RxPhraseAt(b, text, AfterSpace(text, i + Len(a) - 1))

\* re.search(r"\b(?:a1|..)\s+(?:for|since)\s+\d+", text)
RxDuration(firsts, text) ==
    \E a \in firsts : \E i \in 1..Len(text) :
        /\ RxWordsAt(<<a>>, text, i)
        /\ LET j == AfterSpace(text, i)
               k == AfterSpace(text, j)
           IN  /\ k <= Len(text)
               /\ text[j] \in {"for", "since"}
               /\ StartsWithDigit(text[k])

Words(ws) == {<<w>> : w \in ws}

-----------------------------------------------------------------------------
(* IntentClassifier: the keyword table and the team mapping *)

StaticKeywords(intent) ==
    CASE intent = "kyc_verification" ->
           << <<"account", "verification">>, <<"identity", "check">>, <<"kyc">>,
              <<"document", "upload">>, <<"verification", "stuck">>,
              <<"pending", "verification">>, <<"id", "verification">> >>
      [] intent = "technical_support" ->
           << <<"api", "error">>, <<"integration">>, <<"webhook">>, <<"error", "code">>,
              <<"technical", "issue">>, <<"500", "error">>, <<"403", "error">>,
              <<"404", "error">>, <<"timeout">>, <<"rate", "limit">>, <<"sdk">> >>
      [] intent = "billing_finance" ->
           << <<"invoice">>, <<"billing">>, <<"charge">>, <<"payment">>, <<"refund">>,
              <<"subscription">>, <<"pricing">>, <<"cost">>, <<"fee">>, <<"balance">>,
              <<"transaction">> >>
      [] intent = "compliance_regulatory" ->
           << <<"compliance">>, <<"gdpr">>, <<"pci", "dss">>, <<"soc", "2">>, <<"audit">>,
              <<"regulation">>, <<"data", "protection">>, <<"privacy">>,
              <<"security", "certificate">>, <<"certification">> >>
      [] intent = "sales_inquiry" ->
           << <<"demo">>, <<"pricing", "plan">>, <<"enterprise">>, <<"partnership">>,
              <<"white", "label">>, <<"new", "customer">>, <<"signup">>, <<"trial">>,
              <<"features">> >>
      [] intent = "general_support" ->
           << <<"help">>, <<"how", "to">>, <<"question">>, <<"information">>,
              <<"documentation">>, <<"guide">> >>

\* self.intent_categories[intent]: the static list, then the learned keywords
intent_categories(intent, learned) ==
    StaticKeywords(intent) \o [i \in 1..Len(learned[intent]) |-> <<learned[intent][i]>>]

DefaultTeamMapping ==
    [intent \in IntentSet |->
        CASE intent = "kyc_verification"      -> "KYC Team"
          [] intent = "technical_support"     -> "Tech Support"
          [] intent = "billing_finance"       -> "Finance Team"
          [] intent = "compliance_regulatory" -> "Compliance Team"
          [] intent = "sales_inquiry"         -> "Sales Team"
          [] intent = "general_support"       -> "Tech Support"]

\* self.team_mapping.get(intent, "Tech Support")
TeamFor(mapping, intent) ==
    IF intent \in DOMAIN mapping THEN mapping[intent] ELSE "Tech Support"

-----------------------------------------------------------------------------
(* IntentClassifier._fallback_classification *)

\* A plausible slip: only a token of exactly three digits counts as an error code.
ErrorCodeEntityWholeToken(w) ==
    IF w \in ThreeDigitCodes THEN <<"error_" \o w>> ELSE <<>>

\* re.findall(r"\b\d{3}\b", text), as f"error_{code}"
ErrorCodeEntity(w) ==
    CASE w \in ThreeDigitCodes -> <<"error_" \o w>>
      [] w = "$120" -> <<"error_120">>      \* \b lies between "$" and "1"
      [] OTHER      -> <<>>

\* the text between token i and the next one: a space, the NL, or nothing at the end
Separator(text, i) ==
    IF i >= Len(text) THEN ""
    ELSE IF text[i + 1] = NL THEN NL
    ELSE " "

\* re.findall(r"\$?\d+\.?\d*\s*(?:dollars?|USD)?", text): the match takes the
\* whitespace that follows the digits
AmountEntity(w, sep) ==
    IF StartsWithDigit(w) \/ w = "$120" THEN <<w \o sep>> ELSE <<>>

\* re.findall(r"\b(?:jan|feb|..)[a-z]*\s+\d{1,2}", text_lower): a month word, the
\* whitespace after it, and the first two digits of a token that starts with a digit
TwoDigits(w) ==
    CASE w \in {"401", "402", "403", "404"} -> "40"
      [] w \in {"500", "503", "504"} -> "50"
      [] w \in {"12", "120"} -> "12"
      [] OTHER -> w

DateEntity(w, sep, next) ==
    IF w = "august" /\ sep \in {" ", NL} /\ StartsWithDigit(next)
    THEN <<"august" \o sep \o TwoDigits(next)>>
    ELSE <<>>

RECURSIVE Flatten(_)
Flatten(seqs) == IF seqs = <<>> THEN <<>> ELSE Head(seqs) \o Flatten(Tail(seqs))

\* A plausible slip: the amounts collected before the error codes.
ExtractEntitiesAmountsFirst(text, text_lower) ==
    LET n == Len(text)
        error_codes == Flatten([i \in 1..n |-> ErrorCodeEntity(text[i])])
        amounts     == Flatten([i \in 1..n |-> AmountEntity(text[i], Separator(text, i))])
    IN  amounts \o error_codes

ExtractEntities(text, text_lower) ==
    LET n == Len(text)
        error_codes == Flatten([i \in 1..n |-> ErrorCodeEntity(text[i])])
        amounts     == Flatten([i \in 1..n |-> AmountEntity(text[i], Separator(text, i))])
        dates       == Flatten([i \in 1..n |->
                          IF AfterSpace(text_lower, i) <= n
                          THEN DateEntity(text_lower[i], Separator(text_lower, i),
                                          text_lower[AfterSpace(text_lower, i)])
                          ELSE <<>>])
    IN  error_codes \o amounts \o dates

negative_words == Words({"error", "failed", "stuck", "problem", "issue", "dispute",
                         "wrong", "incorrect", "can't", "unable"})

urgent_words == Words({"urgent", "critical", "emergency", "immediately", "asap",
                       "blocked", "down"})

positive_words == Words({"thanks", "great", "helpful", "appreciate"})
                      \cup {<<"thank", "you">>}

DetectSentiment(text_lower) ==
    IF \E w \in urgent_words : PhraseIn(w, text_lower) THEN "urgent"
    ELSE IF \E w \in negative_words : PhraseIn(w, text_lower) THEN "negative"
    ELSE IF \E w \in positive_words : PhraseIn(w, text_lower) THEN "positive"
    ELSE "neutral"

critical_patterns(t) ==
    \/ RxPair(Words({"down", "completely", "totally", "entirely"}) \cup {<<"not", "working">>},
              Words({"down", "broken", "failed"}), t)
    \/ RxPair(Words({"emergency", "critical", "urgent"}),
              Words({"issue", "problem", "situation"}), t)
    \/ RxPhrase(Words({"security", "breach", "leak", "hack"}), t)
    \/ RxPair(Words({"blocked", "blocking"}),
              Words({"all", "everything", "operations", "business"}), t)

high_patterns(t) ==
    \/ RxDuration({"error", "failing", "failed", "stuck", "delayed"}, t)
    \/ RxPair(Words({"affecting", "blocking", "preventing"}),
              Words({"operations", "business", "transactions"}), t)
    \/ RxPhrase(Words({"dispute", "discrepancy"})
                  \cup {<<"wrong", "charge">>, <<"incorrect", "billing">>}, t)
    \/ RxPair(Words({"can't", "cannot", "unable"}),
              Words({"process", "complete", "access", "verify"}), t)

low_patterns(t) ==
    \/ RxPhrase(Words({"curious", "feedback", "suggestion"}) \cup {<<"just", "wondering">>}, t)
    \/ RxPair(Words({"information", "info", "question"}), Words({"about", "regarding"}), t)
    \/ RxPhrase({<<"how", "do">>, <<"where", "can">>, <<"can", "you", "tell">>}, t)

DetectUrgency(text_lower) ==
    IF critical_patterns(text_lower) THEN "critical"
    ELSE IF high_patterns(text_lower) THEN "high"
    ELSE IF low_patterns(text_lower) THEN "low"
    ELSE "medium"

dispute_keywords == Words({"dispute", "discrepancy"})
                      \cup {<<"wrong", "charge">>, <<"incorrect", "billing">>,
                            <<"billing", "error">>}

IsDispute(text_lower) == \E w \in dispute_keywords : PhraseIn(w, text_lower)

DisputeScore == 10

\* the context pattern of an intent, and what it adds to the score
ContextBoost(intent, t) ==
    CASE intent = "kyc_verification" ->
           IF RxPair(Words({"verify", "verification", "kyc", "document"}),
                     Words({"stuck", "pending", "failed", "issue"}), t) THEN 3 ELSE 0
      [] intent = "technical_support" ->
           IF RxPair(Words({"api", "webhook", "integration", "sdk"}),
                     Words({"error", "failing"}) \cup {<<"not", "working">>}, t) THEN 3 ELSE 0
      [] intent = "billing_finance" ->
           IF RxPair(Words({"invoice", "payment", "charge", "refund", "billing"}),
                     Words({"question", "issue", "problem"}), t) THEN 2 ELSE 0
      [] OTHER -> 0

KeywordScore(keyword, t) ==
    IF PhraseIn(keyword, t) THEN 2
    ELSE IF RxWords(keyword, t) THEN 1
    ELSE 0

RECURSIVE SumScores(_, _)
SumScores(keywords, t) ==
    IF keywords = <<>> THEN 0
    ELSE KeywordScore(Head(keywords), t) + SumScores(Tail(keywords), t)

CategoryScore(intent, keywords, t) == SumScores(keywords, t) + ContextBoost(intent, t)

\* a Python dict as the sequence of its <<key, value>> items, in insertion order
DictHas(d, k) == \E i \in 1..Len(d) : d[i][1] = k

DictSet(d, k, v) ==
    IF DictHas(d, k)
    THEN [i \in 1..Len(d) |-> IF d[i][1] = k THEN <<k, v>> ELSE d[i]]
    ELSE Append(d, <<k, v>>)

\* A plausible slip: the last of the keys with the largest value.
DictMaxLast(d) ==
    LET i == CHOOSE i \in 1..Len(d) :
                 /\ \A j \in 1..Len(d) : d[j][2] <= d[i][2]
                 /\ \A j \in (i + 1)..Len(d) : d[j][2] < d[i][2]
    IN  d[i]

\* max(d, key=d.get): the first key, in insertion order, with the largest value
DictMax(d) ==
    LET i == CHOOSE i \in 1..Len(d) :
                 /\ \A j \in 1..Len(d) : d[j][2] <= d[i][2]
                 /\ \A j \in 1..(i - 1) : d[j][2] < d[i][2]
    IN  d[i]

RECURSIVE ScoreIntents(_, _, _, _)
ScoreIntents(i, intent_scores, learned, t) ==
    IF i > Len(Intents) THEN intent_scores
    ELSE LET intent == Intents[i]
             score  == CategoryScore(intent, intent_categories(intent, learned), t)
         IN  ScoreIntents(i + 1,
                          IF score > 0 THEN DictSet(intent_scores, intent, score)
                          ELSE intent_scores,
                          learned, t)

IntentScores(text_lower, learned) ==
    ScoreIntents(1,
                 IF IsDispute(text_lower)
                 THEN << <<"compliance_regulatory", DisputeScore>> >> ELSE <<>>,
                 learned, text_lower)

\* A plausible slip: the cap forgotten, the second argument returned as it is.
MinUncapped(a, b) == b

Min(a, b) == IF a <= b THEN a ELSE b

_fallback_classification(text, learned, mapping) ==
    LET text_lower   == lower(text)
        key_entities == ExtractEntities(text, text_lower)
        sentiment    == DetectSentiment(text_lower)
        urgency0     == DetectUrgency(text_lower)
        urgency      == IF IsDispute(text_lower) /\ urgency0 # "critical"
                        THEN "high" ELSE urgency0
        intent_scores == IntentScores(text_lower, learned)
        intent       == IF intent_scores # <<>> THEN DictMax(intent_scores)[1]
                        ELSE "general_support"
        confidence   == IF intent_scores # <<>>
                        THEN Min(85, 50 + DictMax(intent_scores)[2] * 5)
                        ELSE 50
        reasoning    == << <<"Classified as", intent>> >>
                        \o (IF key_entities # <<>>
                            THEN << <<"Detected entities",
                                      SubSeq(key_entities, 1, Min(3, Len(key_entities)))>> >>
                            ELSE <<>>)
                        \o << <<"Sentiment", sentiment>> >>
    IN  [intent        |-> intent,
         urgency       |-> urgency,
         reasoning     |-> reasoning,
         confidence    |-> confidence,
         assigned_team |-> TeamFor(mapping, intent),
         key_entities  |-> SubSeq(key_entities, 1, Min(5, Len(key_entities))),
         sentiment     |-> sentiment]

-----------------------------------------------------------------------------
(* The AI call and IntentClassifier.classify_intent.  A call either        *)
(* returns a value or raises: Return and Raise are the two outcomes.       *)

Return(v) == [exc |-> FALSE, val |-> v]

Raise == [exc |-> TRUE, val |-> <<>>]

JsonFields == {"intent", "urgency", "confidence", "key_entities", "sentiment", "reasoning"}

ResultFields == JsonFields \cup {"assigned_team"}

\* a JSON list or object where a string is expected: not hashable as a dict key
Unhashable == "<list>"

AiIntents == {"billing_finance", "technical_support", "account_closure", Unhashable}

AiUrgencies == {"high", "urgent"}

AiConfidences == {40, 90}

AiEntities == {<<>>, <<"error_403">>}

AiSentiments == {"negative"}

\* the JSON object of a response: a dict holding the fields in `has`
JsonObject(has, i, u, c, k, s) ==
    [f \in has |->
        CASE f = "intent"       -> i
          [] f = "urgency"      -> u
          [] f = "confidence"   -> c
          [] f = "key_entities" -> k
          [] f = "sentiment"    -> s
          [] f = "reasoning"    -> <<"as the model explains">>]

JsonObjects ==
    {JsonObject(has, i, u, c, k, s) :
        has \in SUBSET JsonFields, i \in AiIntents, u \in AiUrgencies,
        c \in AiConfidences, k \in AiEntities, s \in AiSentiments}

\* what self.model.generate_content(prompt) does: it raises ("raise"), or its
\* text holds no {...} ("nojson"), a {...} json.loads rejects ("badjson"), or an object
AiOutcome(kind, obj) == [kind |-> kind, obj |-> obj]

AiOutcomes ==
    {AiOutcome(k, <<>>) : k \in {"raise", "nojson", "badjson"}}
        \cup {AiOutcome("json", o) : o \in JsonObjects}

\* d with d[k] = v when k is not yet a key
SetDefault(d, k, v) == IF k \in DOMAIN d THEN d ELSE d @@ (k :> v)

DefaultClassification ==
    [intent       |-> "general_support",
     urgency      |-> "medium",
     reasoning    |-> <<"Failed to parse AI response - using fallback classification">>,
     confidence   |-> 50,
     key_entities |-> <<>>,
     sentiment    |-> "neutral"]

\* the try block of _parse_gemini_response
ParseJson(ai) ==
    IF ai.kind # "json" THEN Raise
    ELSE IF "intent" \notin DOMAIN ai.obj \/ "urgency" \notin DOMAIN ai.obj THEN Raise
    ELSE LET r1 == SetDefault(ai.obj, "confidence", 80)
             r2 == IF r1["urgency"] \notin Urgencies
                   THEN [r1 EXCEPT !["urgency"] = "medium"] ELSE r1
             r3 == SetDefault(r2, "key_entities", <<>>)
             r4 == SetDefault(r3, "sentiment", "neutral")
             r5 == SetDefault(r4, "reasoning", <<"Classified based on message content">>)
         IN  Return(r5)

_parse_gemini_response(ai) ==
    LET r == ParseJson(ai)
    IN  IF r.exc THEN Return(DefaultClassification) ELSE r

\* the try block of classify_intent
CallAndParse(ai, mapping) ==
    IF ai.kind = "raise" THEN Raise
    ELSE LET r == _parse_gemini_response(ai)
         IN  IF r.exc THEN r
             ELSE IF r.val["intent"] = Unhashable THEN Raise   \* TypeError in dict.get
             ELSE Return(r.val @@ ("assigned_team" :> TeamFor(mapping, r.val["intent"])))

\* A plausible slip: the try block without its except clause.
classify_intent_unguarded(message, subject, ai, learned, mapping) ==
    CallAndParse(ai, mapping)

classify_intent(message, subject, ai, learned, mapping) ==
    LET r == CallAndParse(ai, mapping)
    IN  IF r.exc
        THEN Return(_fallback_classification(full_text(subject, message), learned, mapping))
        ELSE r

-----------------------------------------------------------------------------
(* Database: the tables as sequences of rows, in insertion (rowid) order *)

TicketIds(rows) == {rows[i].ticket_id : i \in 1..Len(rows)}

\* Database.get_ticket: the row, or None
NoTicket == [ticket_id |-> None]

get_ticket(rows, ticket_id) ==
    IF ticket_id \in TicketIds(rows)
    THEN rows[CHOOSE i \in 1..Len(rows) : rows[i].ticket_id = ticket_id]
    ELSE NoTicket

\* ORDER BY key1 DESC, key2 DESC: an item is <<key1, key2, row>>
KeyBefore(a, b) == a[1] > b[1] \/ (a[1] = b[1] /\ a[2] > b[2])

\* stable insertion of an item before the first item it must precede
InsertSorted(sorted, item) ==
    LET later == {i \in 1..Len(sorted) : KeyBefore(item, sorted[i])}
        p == IF later = {} THEN Len(sorted) + 1
             ELSE CHOOSE i \in later : \A j \in later : i <= j
    IN  SubSeq(sorted, 1, p - 1) \o <<item>> \o SubSeq(sorted, p, Len(sorted))

\* the rows in descending order of keys[i], rows of equal keys in their given order
SortRows(rows, keys) ==
    LET sorted[k \in 0..Len(rows)] ==
            IF k = 0 THEN <<>>
            ELSE InsertSorted(sorted[k - 1], <<keys[k][1], keys[k][2], rows[k]>>)
    IN  [i \in 1..Len(rows) |-> sorted[Len(rows)][i][3]]

\* Database.get_all_tickets: ORDER BY created_at DESC (rows of one second in rowid order)
get_all_tickets(rows) ==
    SortRows(rows, [i \in 1..Len(rows) |-> <<rows[i].created_at, 0>>])

\* Database.get_routing_events
get_routing_events(log, ticket_id) ==
    LET OfTicket(e) == e.ticket_id = ticket_id
    IN  SelectSeq(log, OfTicket)

\* A plausible slip: the newest event written at the head of the log.
log_routing_event_newest_first(log, ticket_id, event_type, event_data) ==
    <<[ticket_id |-> ticket_id, event_type |-> event_type, event_data |-> event_data]>>
        \o log

\* Database.log_routing_event
log_routing_event(log, ticket_id, event_type, event_data) ==
    Append(log, [ticket_id |-> ticket_id, event_type |-> event_type,
                 event_data |-> event_data])

\* Database.save_feedback
save_feedback(feedback, id, ticket_id, original_team, corrected_team, original_intent) ==
    Append(feedback, [id |-> id, ticket_id |-> ticket_id, original_intent |-> original_intent,
                      original_team |-> original_team, corrected_team |-> corrected_team,
                      feedback_type |-> "reassignment"])

PatternIndex(patterns, type, key, value) ==
    {i \in 1..Len(patterns) : /\ patterns[i].pattern_type = type
                              /\ patterns[i].pattern_key = key
                              /\ patterns[i].pattern_value = value}

\* A plausible slip: the update counts the use and keeps the old confidence.
save_learning_pattern_count_only(patterns, type, key, value, confidence) ==
    IF PatternIndex(patterns, type, key, value) # {}
    THEN LET i == CHOOSE i \in PatternIndex(patterns, type, key, value) : TRUE
         IN  [patterns EXCEPT ![i].usage_count = @ + 1]
    ELSE Append(patterns, [pattern_type |-> type, pattern_key |-> key,
                           pattern_value |-> value, confidence |-> confidence,
                           usage_count |-> 1])

\* Database.save_learning_pattern: update the row of the key, or insert it
save_learning_pattern(patterns, type, key, value, confidence) ==
    IF PatternIndex(patterns, type, key, value) # {}
    THEN LET i == CHOOSE i \in PatternIndex(patterns, type, key, value) : TRUE
         IN  [patterns EXCEPT ![i].usage_count = @ + 1, ![i].confidence = confidence]
    ELSE Append(patterns, [pattern_type |-> type, pattern_key |-> key,
                           pattern_value |-> value, confidence |-> confidence,
                           usage_count |-> 1])

\* Database.get_learning_patterns(pattern_type):
\* ORDER BY usage_count DESC, confidence DESC
get_learning_patterns(patterns, type) ==
    LET OfType(p) == p.pattern_type = type
        rows == SelectSeq(patterns, OfType)
    IN  SortRows(rows, [i \in 1..Len(rows) |-> <<rows[i].usage_count, rows[i].confidence>>])

-----------------------------------------------------------------------------
(* LearningSystem *)

min_pattern_confidence == 60

min_pattern_usage == 2

stop_words ==
    {"the", "a", "an", "and", "or", "but", "in", "on", "at", "to", "for", "of", "with",
     "by", "from", "as", "is", "was", "are", "were", "been", "be", "have", "has", "had",
     "do", "does", "did", "will", "would", "should", "could", "may", "might", "must",
     "can", "this", "that", "these", "those", "i", "you", "he", "she", "it", "we",
     "they", "what", "which", "who", "whom", "whose", "where", "when", "why", "how",
     "all", "each", "every", "both", "few", "more", "most", "other", "some", "such",
     "no", "nor", "not", "only", "own", "same", "so", "than", "too", "very", "just",
     "now"}

\* re.findall(r"\b[a-z]{3,}\b", token): the runs of three or more letters in a token
AlphaWords(w) ==
    CASE w \in {NL, "403", "500", "2", "12", "$120", "id"} -> <<>>
      [] w = "can't" -> <<"can">>
      [] OTHER       -> <<w>>

\* the vocabulary's words of exactly three letters: len(keyword) > 3 fails on them
ThreeLetterWords == {"api", "kyc", "sdk", "fee", "pci", "dss", "soc"}

_extract_keywords(text) ==
    LET words == Flatten([i \in 1..Len(text) |-> AlphaWords(LowerWord(text[i]))])
        NotStop(w) == w \notin stop_words
    IN  SelectSeq(words, NotStop)

\* the keywords learn_from_ticket and analyze_and_update_patterns keep:
\* those of message + " " + subject with more than three letters
TicketKeywords(ticket) ==
    LET Long(w) == w \notin ThreeLetterWords
    IN  SelectSeq(_extract_keywords(lower(ticket.message) \o lower(ticket.subject)), Long)

RECURSIVE SaveKeywords(_, _, _, _)
SaveKeywords(patterns, intent, keywords, confidence) ==
    IF keywords = <<>> THEN patterns
    ELSE SaveKeywords(save_learning_pattern(patterns, "intent_keyword", intent,
                                            Head(keywords), confidence),
                      intent, Tail(keywords), confidence)

\* LearningSystem.learn_from_ticket: the pattern table it leaves, or the exception.
\* A subject that was not given is NULL in the row, and None.lower() raises
\* before anything is written.
learn_from_ticket(patterns, ticket) ==
    IF ticket.subject = None THEN Raise
    ELSE LET learned == SaveKeywords(patterns, ticket.intent, TicketKeywords(ticket), 100)
         IN  Return(save_learning_pattern(learned, "team_intent", ticket.assigned_team,
                                          ticket.intent, 100))

\* A plausible slip: the pattern reinforced is that of the team the ticket left.
learn_from_reassignment_original_team(feedback, id, patterns, rows, ticket_id, original_team, new_team, original_intent) ==
    LET ticket == get_ticket(rows, ticket_id)
    IN  [feedback |-> save_feedback(feedback, id, ticket_id, original_team, new_team,
                                    original_intent),
         patterns |-> IF ticket # NoTicket
                      THEN save_learning_pattern(patterns, "team_intent", original_team,
                                                 ticket.intent, 100)
                      ELSE patterns]

\* LearningSystem.learn_from_reassignment: the feedback and pattern tables it leaves
learn_from_reassignment(feedback, id, patterns, rows, ticket_id, original_team, new_team, original_intent) ==
    LET ticket == get_ticket(rows, ticket_id)
    IN  [feedback |-> save_feedback(feedback, id, ticket_id, original_team, new_team,
                                    original_intent),
         patterns |-> IF ticket # NoTicket
                      THEN save_learning_pattern(patterns, "team_intent", new_team,
                                                 ticket.intent, 100)
                      ELSE patterns]

DictGet(d, k, default) ==
    IF DictHas(d, k) THEN d[CHOOSE i \in 1..Len(d) : d[i][1] = k][2] ELSE default

\* counts[k1][k2] += 1 on a defaultdict of defaultdict(int)
Increment(counts, k1, k2) ==
    LET inner == DictGet(counts, k1, <<>>)
    IN  DictSet(counts, k1, DictSet(inner, k2, DictGet(inner, k2, 0) + 1))

RECURSIVE CountKeywords(_, _, _)
CountKeywords(counts, intent, keywords) ==
    IF keywords = <<>> THEN counts
    ELSE CountKeywords(Increment(counts, intent, Head(keywords)), intent, Tail(keywords))

was_reassigned(log, ticket_id) ==
    \E i \in 1..Len(log) : /\ log[i].ticket_id = ticket_id
                           /\ log[i].event_type = "ticket_reassigned"

\* the first loop of analyze_and_update_patterns: the two tallies over the tickets
RECURSIVE TallyTickets(_, _, _)
TallyTickets(rows, log, counts) ==
    IF rows = <<>> THEN counts
    ELSE LET ticket == Head(rows)
             teams == IF ~was_reassigned(log, ticket.ticket_id)
                      THEN Increment(counts.intent_team_counts, ticket.intent,
                                     ticket.assigned_team)
                      ELSE counts.intent_team_counts
             keywords == CountKeywords(counts.intent_keyword_counts, ticket.intent,
                                       TicketKeywords(ticket))
         IN  TallyTickets(Tail(rows), log,
                          [intent_team_counts |-> teams, intent_keyword_counts |-> keywords])

\* the second loop: one team_intent pattern per intent, for its most common team
RECURSIVE SaveTeamCounts(_, _)
SaveTeamCounts(patterns, intent_team_counts) ==
    IF intent_team_counts = <<>> THEN patterns
    ELSE LET intent == Head(intent_team_counts)[1]
             most_common_team == DictMax(Head(intent_team_counts)[2])
             count == most_common_team[2]
             saved == IF count >= min_pattern_usage
                      THEN save_learning_pattern(patterns, "team_intent",
                                                 most_common_team[1], intent,
                                                 Min(100, count * 10))
                      ELSE patterns
         IN  SaveTeamCounts(saved, Tail(intent_team_counts))

RECURSIVE SaveKeywordCounts(_, _, _)
SaveKeywordCounts(patterns, intent, keyword_counts) ==
    IF keyword_counts = <<>> THEN patterns
    ELSE LET count == Head(keyword_counts)[2]
             saved == IF count >= min_pattern_usage
                      THEN save_learning_pattern(patterns, "intent_keyword", intent,
                                                 Head(keyword_counts)[1],
                                                 Min(100, count * 20))
                      ELSE patterns
         IN  SaveKeywordCounts(saved, intent, Tail(keyword_counts))

\* the third loop: the intent_keyword patterns
RECURSIVE SaveIntentKeywordCounts(_, _)
SaveIntentKeywordCounts(patterns, intent_keyword_counts) ==
    IF intent_keyword_counts = <<>> THEN patterns
    ELSE SaveIntentKeywordCounts(
             SaveKeywordCounts(patterns, Head(intent_keyword_counts)[1],
                               Head(intent_keyword_counts)[2]),
             Tail(intent_keyword_counts))

\* LearningSystem.analyze_and_update_patterns: the pattern table it leaves, or the
\* exception.  None.lower() on a NULL subject raises in the first loop, before any write.
analyze_and_update_patterns(rows, log, patterns) ==
    IF \E i \in 1..Len(rows) : rows[i].subject = None THEN Raise
    ELSE LET counts == TallyTickets(get_all_tickets(rows), log,
                                    [intent_team_counts |-> <<>>,
                                     intent_keyword_counts |-> <<>>])
         IN  Return(SaveIntentKeywordCounts(
                        SaveTeamCounts(patterns, counts.intent_team_counts),
                        counts.intent_keyword_counts))

MaxLearnedKeywords == 20

Take(seq, n) == SubSeq(seq, 1, Min(n, Len(seq)))

\* LearningSystem.get_learned_keywords_for_intent
get_learned_keywords_for_intent(patterns, intent) ==
    LET Confident(p) == p.pattern_key = intent /\ p.confidence >= min_pattern_confidence
        confident == SelectSeq(get_learning_patterns(patterns, "intent_keyword"), Confident)
        rows == SortRows(confident,
                         [i \in 1..Len(confident) |-> <<confident[i].usage_count, 0>>])
    IN  Take([i \in 1..Len(rows) |-> rows[i].pattern_value], MaxLearnedKeywords)

\* get_learned_team_for_intent's matching_patterns: the team patterns of the intent
\* at or above min_pattern_confidence
matching_patterns(patterns, intent) ==
    LET Matching(p) == p.pattern_value = intent /\ p.confidence >= min_pattern_confidence
    IN  SelectSeq(get_learning_patterns(patterns, "team_intent"), Matching)

\* LearningSystem.get_learned_team_for_intent: the team, or None
get_learned_team_for_intent(patterns, intent) ==
    LET m == matching_patterns(patterns, intent)
        Less(a, b) == \/ a.confidence < b.confidence
                      \/ a.confidence = b.confidence /\ a.usage_count < b.usage_count
    IN  IF m = <<>> THEN None
        ELSE m[CHOOSE i \in 1..Len(m) :
                   /\ \A j \in 1..Len(m) : ~Less(m[i], m[j])
                   /\ \A j \in 1..(i - 1) : Less(m[j], m[i])].pattern_key

MaxNewKeywords == 10

\* IntentClassifier._load_learned_keywords: the learned keywords it leaves
_load_learned_keywords(learned, patterns) ==
    [intent \in IntentSet |->
        LET existing == {intent_categories(intent, learned)[i] :
                            i \in 1..Len(intent_categories(intent, learned))}
            New(kw) == <<kw>> \notin existing
        IN  learned[intent]
                \o Take(SelectSeq(get_learned_keywords_for_intent(patterns, intent), New),
                        MaxNewKeywords)]

\* IntentClassifier._load_learned_team_mappings: the team mapping it leaves
_load_learned_team_mappings(mapping, patterns) ==
    [intent \in DOMAIN mapping |->
        IF intent \in IntentSet /\ matching_patterns(patterns, intent) # <<>>
        THEN get_learned_team_for_intent(patterns, intent)
        ELSE mapping[intent]]

-----------------------------------------------------------------------------
(* TicketManager and RouterAgent.process_query *)

channel_prefix(channel) ==
    CASE channel = "email" -> "EML" [] channel = "chat" -> "CHT"
      [] channel = "form" -> "FRM" [] OTHER -> "TKT"

urgency_prefix(urgency) ==
    CASE urgency = "critical" -> "C" [] urgency = "high" -> "H"
      [] urgency = "medium" -> "M" [] urgency = "low" -> "L" [] OTHER -> "M"

\* TicketManager._generate_ticket_id: prefixes, the second of the clock, and the
\* first eight hex digits of a uuid4 (unique_id, drawn by the caller)
_generate_ticket_id(channel, urgency, timestamp, unique_id) ==
    <<channel_prefix(channel), urgency_prefix(urgency), timestamp, unique_id>>

\* RouterAgent._handle_escalation: the escalation_info it logs and returns
_handle_escalation(urgency, routing_decision) ==
    [escalated |-> TRUE, urgency |-> urgency, notified |-> routing_decision.notify,
     escalation_time |-> IF urgency = "critical" THEN "immediate" ELSE "4 hours"]

RefreshEvery == 10

-----------------------------------------------------------------------------
(* Input sets and the parts of the state an operation leaves alone *)

SeqsUpTo(S, n) == UNION {[1..k -> S] : k \in 0..n}

routeVars == <<rIn, rOut>>

classVars == <<cIn, cOut>>

classifierVars == <<team_mapping, learned_keywords>>

storeVars == <<tickets, routing_log, learning_feedback, learning_patterns,
               sqlite_sequence, now, last, saving>>

\* IntentClassifier.__init__ over an empty pattern store
ClassifierInit ==
    /\ team_mapping = DefaultTeamMapping
    /\ learned_keywords = [intent \in IntentSet |-> <<>>]

\* Database.init_database on a new file
StoreInit ==
    /\ tickets = <<>>
    /\ routing_log = <<>>
    /\ learning_feedback = <<>>
    /\ learning_patterns = <<>>
    /\ sqlite_sequence = [tickets |-> 0, learning_feedback |-> 0]
    /\ now = 0
    /\ last = [op |-> "none", exc |-> FALSE]
    /\ saving = <<>>

-----------------------------------------------------------------------------
(* The routing decision on its own: every input, then the call *)

RouteConfidences == {40, 59, 60, 85}

RouteTeams == {"Finance Team", "Tech Support"}

RouteInputs ==
    [intent        : IntentSet \cup {"account_closure"},
     urgency       : Urgencies,
     confidence    : RouteConfidences,
     assigned_team : RouteTeams,
     sentiment     : Sentiments,
     key_entities  : SeqsUpTo(EntityPool, MaxEntities)]

InitRoute ==
    /\ rIn \in RouteInputs
    /\ rOut = NoValue
    /\ cIn = NoValue /\ cOut = NoValue
    /\ ClassifierInit
    /\ StoreInit

MakeRoutingDecision ==
    /\ rOut = NoValue
    /\ rOut' = _make_routing_decision(rIn.intent, rIn.urgency, rIn.confidence,
                                      rIn.assigned_team, rIn.sentiment, rIn.key_entities)
    /\ UNCHANGED <<rIn, classVars, classifierVars, storeVars>>

NextRoute == MakeRoutingDecision

SpecRoute == InitRoute /\ [][NextRoute]_vars

-----------------------------------------------------------------------------
(* The fallback classification on its own (the AI path bypassed) *)

FallbackVocab == {"wrong", "charge", "audit", "invoice", "Dispute", "403"}

FallbackSubjects == {None, <<"Billing", "error">>}

InitFallback ==
    /\ cIn \in [subject : FallbackSubjects,
                message : SeqsUpTo(FallbackVocab, MaxLen)]
    /\ cOut = NoValue
    /\ rIn = NoValue /\ rOut = NoValue
    /\ ClassifierInit
    /\ StoreInit

FallbackClassify ==
    /\ cOut = NoValue
    /\ cOut' = Return(_fallback_classification(full_text(cIn.subject, cIn.message),
                                               learned_keywords, team_mapping))
    /\ UNCHANGED <<cIn, routeVars, classifierVars, storeVars>>

NextFallback == FallbackClassify

SpecFallback == InitFallback /\ [][NextFallback]_vars

-----------------------------------------------------------------------------
(* classify_intent on its own: every message, subject and AI outcome *)

ClassifySubjects == {None, <<"Invoice">>}

InitClassify ==
    /\ cIn \in [subject : ClassifySubjects,
                message : SeqsUpTo(FallbackVocab, MaxAiLen),
                ai      : AiOutcomes]
    /\ cOut = NoValue
    /\ rIn = NoValue /\ rOut = NoValue
    /\ ClassifierInit
    /\ StoreInit

ClassifyIntent ==
    /\ cOut = NoValue
    /\ cOut' = classify_intent(cIn.message, cIn.subject, cIn.ai,
                               learned_keywords, team_mapping)
    /\ UNCHANGED <<cIn, routeVars, classifierVars, storeVars>>

NextClassify == ClassifyIntent

SpecClassify == InitClassify /\ [][NextClassify]_vars

-----------------------------------------------------------------------------
(* process_query up to its routing decision, the AI call failing: the      *)
(* fallback classifies and the routing decision takes what it returned     *)

MaxCodes == 6

\* "Our monthly invoice for August shows an extra $120 charge. Can you please review it?"
InvoiceMessage == <<"Our", "monthly", "invoice", "for", "August", "shows", "an", "extra",
                    "$120", "charge.", "Can", "you", "please", "review", "it?">>

CodeList == <<"401", "402", "403", "404", "500", "503", "504">>

\* a message of MaxCodes different error codes and an amount
CodeText == SubSeq(CodeList, 1, MaxCodes) \o <<"$120">>

\* the tokens of text at the positions in S, in their order
Pick(text, S) ==
    LET picked[k \in 0..Len(text)] ==
            IF k = 0 THEN <<>>
            ELSE IF k \in S THEN Append(picked[k - 1], text[k]) ELSE picked[k - 1]
    IN  picked[Len(text)]

TriageMessages ==
    {InvoiceMessage, <<"Dispute", "403">>}
        \cup {Pick(CodeText, S) : S \in SUBSET (1..Len(CodeText))}

TriageSubjects == {None, <<"Error", "404">>}

InitTriage ==
    /\ cIn \in [subject : TriageSubjects, message : TriageMessages]
    /\ cOut = NoValue
    /\ rIn = NoValue /\ rOut = NoValue
    /\ ClassifierInit
    /\ StoreInit

\* process_query, step 2: the routing decision on the classification's fields
RouteClassification ==
    /\ cOut # NoValue
    /\ rOut = NoValue
    /\ rIn' = [f \in ResultFields \ {"reasoning"} |-> cOut.val[f]]
    /\ rOut' = _make_routing_decision(cOut.val.intent, cOut.val.urgency,
                                      cOut.val.confidence, cOut.val.assigned_team,
                                      cOut.val.sentiment, cOut.val.key_entities)
    /\ UNCHANGED <<classVars, classifierVars, storeVars>>

-----------------------------------------------------------------------------
(* The router over its store: queries, reassignments, deletions, the batch *)
(* analysis and the clock.  `last` holds the last operation and what it    *)
(* returned to its caller.                                                 *)

MaxTickets == 2

MaxTime == 1

MaxUniqueId == 1

MaxUsage == 4

MaxFeedback == 1

ProcessMessages == {<<"invoice">>}

ProcessSubjects == {None, <<"Dispute">>}

\* the AI call raises (no API key, no network): the keyword fallback classifies
ProcessAi == {AiOutcome("raise", <<>>)}

\* where a statement on the database raises (sqlite3.OperationalError) in process_query
Faults == {"none", "create_ticket", "ticket_created", "ticket_escalated",
           "routing_completed"}

AssignTeams == {"Finance Team", "Tech Support"}

\* a ticket_id no ticket has
UnknownId == <<"EML", "M", 0, 0>>

BelowUsageCap == \A i \in 1..Len(learning_patterns) :
                     learning_patterns[i].usage_count < MaxUsage

InitStore ==
    /\ ClassifierInit
    /\ StoreInit
    /\ rIn = NoValue /\ rOut = NoValue
    /\ cIn = NoValue /\ cOut = NoValue

\* the tables and the classifier's learned state that process_query reads and writes
StoreState == [tickets |-> tickets, routing_log |-> routing_log,
               learning_patterns |-> learning_patterns,
               sqlite_sequence |-> sqlite_sequence,
               learned_keywords |-> learned_keywords, team_mapping |-> team_mapping]

\* A plausible slip: step 7 of process_query without its try/except.
LearningUnguarded(learned) == learned

\* process_query, step 7: the try/except around learn_from_ticket and the refresh
\* prints a warning and goes on
LearningGuarded(learned) == [exc |-> FALSE, val |-> learned.val, warning |-> learned.exc]

\* A plausible slip: the escalation handled after the routing is logged complete.
route_and_store_escalation_last(st, channel, message, subject, classification, unique_id, fault) ==
    LET intent == classification["intent"]
        urgency == classification["urgency"]
        routing_decision ==
            _make_routing_decision(intent, urgency, classification["confidence"],
                                   classification["assigned_team"],
                                   classification["sentiment"],
                                   classification["key_entities"])
        ticket_id == _generate_ticket_id(channel, urgency, now, unique_id)
        ticket == [id |-> st.sqlite_sequence.tickets + 1,
                   ticket_id |-> ticket_id, channel |-> channel, subject |-> subject,
                   message |-> message, intent |-> intent, urgency |-> urgency,
                   assigned_team |-> routing_decision.final_team, status |-> "open",
                   response |-> None,
                   created_at |-> now]
        collides == ticket_id \in TicketIds(st.tickets)
        log1 == log_routing_event(st.routing_log, ticket_id, "ticket_created",
                                  [channel |-> channel, intent |-> intent,
                                   urgency |-> urgency,
                                   assigned_team |-> routing_decision.final_team])
        escalation_info == IF routing_decision.escalate
                           THEN _handle_escalation(urgency, routing_decision)
                           ELSE None
        log2 == log_routing_event(log1, ticket_id, "routing_completed",
                                  [routing_decision |-> routing_decision,
                                   auto_respond |-> FALSE,
                                   escalation |-> escalation_info])
        log3 == IF routing_decision.escalate
                THEN log_routing_event(log2, ticket_id, "ticket_escalated", escalation_info)
                ELSE log2
        learned == learn_from_ticket(st.learning_patterns, ticket)
        learning == LearningGuarded(learned)
        patterns == IF learned.exc THEN st.learning_patterns ELSE learned.val
        refresh == ~learned.exc /\ (Len(st.tickets) + 1) % RefreshEvery = 0
        created == [st EXCEPT !.tickets = Append(st.tickets, ticket),
                              !.sqlite_sequence.tickets = @ + 1]
        result == [ticket_id |-> ticket_id, channel |-> channel,
                   classification |-> [f \in JsonFields |-> classification[f]],
                   routing |-> routing_decision,
                   escalation |-> escalation_info,
                   status |-> "routed"]
        OperationalError == [exc |-> TRUE, error |-> "OperationalError"]
    IN  IF fault = "create_ticket" THEN [st |-> st, out |-> OperationalError]
        ELSE IF collides
        THEN [st |-> st, out |-> [exc |-> TRUE, error |-> "IntegrityError"]]
        ELSE IF fault = "ticket_created" THEN [st |-> created, out |-> OperationalError]
        ELSE IF fault = "ticket_escalated"
        THEN [st |-> [created EXCEPT !.routing_log = log1], out |-> OperationalError]
        ELSE IF fault = "routing_completed"
        THEN [st |-> [created EXCEPT !.routing_log = log2], out |-> OperationalError]
        ELSE [st |-> [created EXCEPT
                         !.routing_log = log3,
                         !.learning_patterns = patterns,
                         !.learned_keywords =
                             IF refresh
                             THEN _load_learned_keywords(st.learned_keywords, patterns)
                             ELSE @,
                         !.team_mapping =
                             IF refresh
                             THEN _load_learned_team_mappings(st.team_mapping, patterns)
                             ELSE @],
              out |-> IF learning.exc THEN [exc |-> TRUE, error |-> "learning"]
                      ELSE [exc |-> FALSE, result |-> result,
                            learning_warning |-> learning.warning]]

\* RouterAgent.process_query(channel, message, subject=subject, auto_respond=False),
\* from its second step on: the state it leaves and what its caller gets
route_and_store(st, channel, message, subject, classification, unique_id, fault) ==
    LET intent == classification["intent"]
        urgency == classification["urgency"]
        routing_decision ==
            _make_routing_decision(intent, urgency, classification["confidence"],
                                   classification["assigned_team"],
                                   classification["sentiment"],
                                   classification["key_entities"])
        ticket_id == _generate_ticket_id(channel, urgency, now, unique_id)
        ticket == [id |-> st.sqlite_sequence.tickets + 1,
                   ticket_id |-> ticket_id, channel |-> channel, subject |-> subject,
                   message |-> message, intent |-> intent, urgency |-> urgency,
                   assigned_team |-> routing_decision.final_team, status |-> "open",
                   response |-> None,
                   created_at |-> now]
        collides == ticket_id \in TicketIds(st.tickets)
        log1 == log_routing_event(st.routing_log, ticket_id, "ticket_created",
                                  [channel |-> channel, intent |-> intent,
                                   urgency |-> urgency,
                                   assigned_team |-> routing_decision.final_team])
        escalation_info == IF routing_decision.escalate
                           THEN _handle_escalation(urgency, routing_decision)
                           ELSE None
        log2 == IF routing_decision.escalate
                THEN log_routing_event(log1, ticket_id, "ticket_escalated", escalation_info)
                ELSE log1
        log3 == log_routing_event(log2, ticket_id, "routing_completed",
                                  [routing_decision |-> routing_decision,
                                   auto_respond |-> FALSE,
                                   escalation |-> escalation_info])
        learned == learn_from_ticket(st.learning_patterns, ticket)
        learning == LearningGuarded(learned)
        patterns == IF learned.exc THEN st.learning_patterns ELSE learned.val
        refresh == ~learned.exc /\ (Len(st.tickets) + 1) % RefreshEvery = 0
        created == [st EXCEPT !.tickets = Append(st.tickets, ticket),
                              !.sqlite_sequence.tickets = @ + 1]
        result == [ticket_id |-> ticket_id, channel |-> channel,
                   classification |-> [f \in JsonFields |-> classification[f]],
                   routing |-> routing_decision,
                   escalation |-> escalation_info,
                   status |-> "routed"]
        OperationalError == [exc |-> TRUE, error |-> "OperationalError"]
    IN  IF fault = "create_ticket" THEN [st |-> st, out |-> OperationalError]
        ELSE IF collides
        THEN [st |-> st, out |-> [exc |-> TRUE, error |-> "IntegrityError"]]
        ELSE IF fault = "ticket_created" THEN [st |-> created, out |-> OperationalError]
        ELSE IF fault = "ticket_escalated"
        THEN [st |-> [created EXCEPT !.routing_log = log1], out |-> OperationalError]
        ELSE IF fault = "routing_completed"
        THEN [st |-> [created EXCEPT !.routing_log = log2], out |-> OperationalError]
        ELSE [st |-> [created EXCEPT
                         !.routing_log = log3,
                         !.learning_patterns = patterns,
                         !.learned_keywords =
                             IF refresh
                             THEN _load_learned_keywords(st.learned_keywords, patterns)
                             ELSE @,
                         !.team_mapping =
                             IF refresh
                             THEN _load_learned_team_mappings(st.team_mapping, patterns)
                             ELSE @],
              out |-> IF learning.exc THEN [exc |-> TRUE, error |-> "learning"]
                      ELSE [exc |-> FALSE, result |-> result,
                            learning_warning |-> learning.warning]]

\* the statement a fault names is one process_query reaches
FaultReached(classification, fault) ==
    fault = "ticket_escalated"
        => _make_routing_decision(classification["intent"], classification["urgency"],
                                  classification["confidence"],
                                  classification["assigned_team"],
                                  classification["sentiment"],
                                  classification["key_entities"]).escalate

RouteAndStore(channel, message, subject, classification, unique_id, fault) ==
    /\ sqlite_sequence.tickets < MaxTickets
    /\ BelowUsageCap
    /\ FaultReached(classification, fault)
    /\ \E r \in {route_and_store(StoreState, channel, message, subject, classification,
                                  unique_id, fault)} :
           /\ tickets' = r.st.tickets
           /\ routing_log' = r.st.routing_log
           /\ learning_patterns' = r.st.learning_patterns
           /\ sqlite_sequence' = r.st.sqlite_sequence
           /\ learned_keywords' = r.st.learned_keywords
           /\ team_mapping' = r.st.team_mapping
           /\ last' = [f \in {"op"} \cup DOMAIN r.out |->
                          IF f = "op" THEN "process" ELSE r.out[f]]
    /\ UNCHANGED <<learning_feedback, now, routeVars, classVars, saving>>

\* RouterAgent.process_query: classify, then route and store
Process ==
    \E message \in ProcessMessages, subject \in ProcessSubjects, ai \in ProcessAi :
        \E classification \in {classify_intent(message, subject, ai,
                                               learned_keywords, team_mapping).val} :
            \E unique_id \in 1..MaxUniqueId, fault \in Faults :
                RouteAndStore("email", message, subject, classification, unique_id, fault)

\* Database.update_ticket
update_ticket(rows, ticket_id, team) ==
    [i \in 1..Len(rows) |-> IF rows[i].ticket_id = ticket_id
                            THEN [rows[i] EXCEPT !.assigned_team = team] ELSE rows[i]]

\* TicketManager.assign_ticket(ticket_id, team)
AssignTicket ==
    \E ticket_id \in TicketIds(tickets) \cup {UnknownId}, team \in AssignTeams :
        LET ticket == get_ticket(tickets, ticket_id)
            original_team == IF ticket # NoTicket THEN ticket.assigned_team ELSE "Unknown"
            original_intent == IF ticket # NoTicket THEN ticket.intent ELSE None
            learned == learn_from_reassignment(learning_feedback,
                                               sqlite_sequence.learning_feedback + 1,
                                               learning_patterns, tickets', ticket_id,
                                               original_team, team, original_intent)
        IN  /\ sqlite_sequence.learning_feedback < MaxFeedback
            /\ BelowUsageCap
            /\ sqlite_sequence' = [sqlite_sequence EXCEPT !.learning_feedback = @ + 1]
            /\ tickets' = update_ticket(tickets, ticket_id, team)
            /\ routing_log' = log_routing_event(routing_log, ticket_id,
                                                "ticket_reassigned", [new_team |-> team])
            /\ learning_feedback' = learned.feedback
            /\ learning_patterns' = learned.patterns
            /\ last' = [op |-> "assign", exc |-> FALSE]
            /\ UNCHANGED <<now, classifierVars, routeVars, classVars, saving>>

NotOf(ids, rows) ==
    LET Kept(r) == r.ticket_id \notin ids
    IN  SelectSeq(rows, Kept)

\* a deletion that raises before its commit: the transaction is rolled back
DeletionFails(op) ==
    /\ last' = [op |-> op, exc |-> TRUE]
    /\ UNCHANGED <<tickets, routing_log, learning_feedback>>

\* TicketManager.delete_ticket(ticket_id)
DeleteTicket ==
    \E ticket_id \in TicketIds(tickets) \cup {UnknownId}, fails \in BOOLEAN :
        /\ IF fails THEN DeletionFails("delete_ticket")
           ELSE IF ticket_id \notin TicketIds(tickets)
           THEN /\ last' = [op |-> "delete_ticket", exc |-> FALSE, result |-> FALSE]
                /\ UNCHANGED <<tickets, routing_log, learning_feedback>>
           ELSE /\ routing_log' = NotOf({ticket_id}, routing_log)
                /\ learning_feedback' = NotOf({ticket_id}, learning_feedback)
                /\ tickets' = NotOf({ticket_id}, tickets)
                /\ last' = [op |-> "delete_ticket", exc |-> FALSE, result |-> TRUE]
        /\ UNCHANGED <<learning_patterns, sqlite_sequence, now, classifierVars, routeVars,
                        classVars, saving>>

\* TicketManager.delete_all_tickets()
DeleteAllTickets ==
    \E fails \in BOOLEAN :
        /\ IF fails THEN DeletionFails("delete_all_tickets")
           ELSE /\ routing_log' = <<>>
                /\ learning_feedback' = <<>>
                /\ tickets' = <<>>
                /\ last' = [op |-> "delete_all_tickets", exc |-> FALSE,
                            result |-> Len(tickets)]
        /\ UNCHANGED <<learning_patterns, sqlite_sequence, now, classifierVars, routeVars,
                        classVars, saving>>

\* Database.delete_older_tickets(before_date)
DeleteOlderTickets ==
    \E before_date \in 1..(MaxTime + 1), fails \in BOOLEAN :
        LET ticket_ids == {tickets[i].ticket_id : i \in
                              {j \in 1..Len(tickets) : tickets[j].created_at < before_date}}
        IN  /\ IF fails THEN DeletionFails("delete_older_tickets")
               ELSE IF ticket_ids = {}
               THEN /\ last' = [op |-> "delete_older_tickets", exc |-> FALSE, result |-> 0]
                    /\ UNCHANGED <<tickets, routing_log, learning_feedback>>
               ELSE /\ routing_log' = NotOf(ticket_ids, routing_log)
                    /\ tickets' = NotOf(ticket_ids, tickets)
                    /\ last' = [op |-> "delete_older_tickets", exc |-> FALSE,
                                result |-> Cardinality(ticket_ids)]
                    /\ UNCHANGED learning_feedback
            /\ UNCHANGED <<learning_patterns, sqlite_sequence, now, classifierVars, routeVars,
                        classVars, saving>>

\* LearningSystem.analyze_and_update_patterns()
AnalyzeAndUpdatePatterns ==
    LET r == analyze_and_update_patterns(tickets, routing_log, learning_patterns)
    IN  /\ BelowUsageCap
        /\ learning_patterns' = IF r.exc THEN learning_patterns ELSE r.val
        /\ last' = [op |-> "analyze", exc |-> r.exc]
        /\ UNCHANGED <<tickets, routing_log, learning_feedback, sqlite_sequence, now,
                       classifierVars, routeVars, classVars, saving>>

\* a second passes on the clock
Tick ==
    /\ now < MaxTime
    /\ now' = now + 1
    /\ UNCHANGED <<tickets, routing_log, learning_feedback, learning_patterns,
                   sqlite_sequence, last, classifierVars, routeVars, classVars, saving>>

Next ==
    \/ Process
    \/ AssignTicket
    \/ DeleteTicket
    \/ DeleteAllTickets
    \/ DeleteOlderTickets
    \/ AnalyzeAndUpdatePatterns
    \/ Tick

Spec == InitStore /\ [][Next]_vars

-----------------------------------------------------------------------------
(* process_query step by step on the triage inputs: the classification, the *)
(* routing decision, then the ticket, its events and the learning           *)

\* process_query, steps 4 to 7, on the classification and the decision of the
\* steps before
PersistClassification ==
    /\ rOut # NoValue
    /\ last.op = "none"
    /\ RouteAndStore("email", cIn.message, cIn.subject, cOut.val, 1, "none")

NextTriage == FallbackClassify \/ RouteClassification \/ PersistClassification

SpecTriage == InitTriage /\ [][NextTriage]_vars

-----------------------------------------------------------------------------
(* RouterAgent.batch_process: a list of queries, each one a process_query   *)
(* of its own inside a try/except                                            *)

MaxBatch == 2

\* the query dicts of a batch: a whole one, one with no subject, one with no
\* message (query['message'] raises KeyError)
BatchQuerySet ==
    {[message |-> <<"invoice">>, subject |-> <<"Dispute">>, auto_respond |-> FALSE],
     [message |-> <<"invoice">>, auto_respond |-> FALSE],
     [subject |-> <<"Dispute">>, auto_respond |-> FALSE]}

\* the statements of process_query every call reaches
BatchFaults == {"none", "create_ticket", "routing_completed"}

\* what the call of one query meets: the uuid drawn and the statement that fails
BatchRuns == [unique_id : 1..MaxUniqueId, fault : BatchFaults]

\* query.get(key): the value, or None
QueryGet(query, key) == IF key \in DOMAIN query THEN query[key] ELSE None

\* the body of the try in batch_process: process_query on the fields of one query
process_query(st, query, run) ==
    IF "message" \notin DOMAIN query
    THEN [st |-> st, out |-> [exc |-> TRUE, error |-> "KeyError"]]
    ELSE LET subject == QueryGet(query, "subject")
             classification ==
                 CHOOSE c \in {classify_intent(query.message, subject,
                                               AiOutcome("raise", <<>>),
                                               st.learned_keywords,
                                               st.team_mapping).val} : TRUE
         IN  route_and_store(st, "email", query.message, subject, classification,
                             run.unique_id, run.fault)

\* A plausible slip: the except branch prints the error and appends nothing.
batch_entry_errors_dropped(query, out) ==
    IF out.exc THEN <<>> ELSE <<out.result>>

\* what batch_process appends to results for one query
batch_entry(query, out) ==
    IF out.exc
    THEN <<[error |-> out.error, query |-> query]>>
    ELSE <<out.result>>

\* RouterAgent.batch_process: the state it leaves and the list it returns
RECURSIVE batch_process(_, _, _)
batch_process(st, queries, runs) ==
    IF queries = <<>> THEN [st |-> st, results |-> <<>>]
    ELSE LET r == process_query(st, Head(queries), Head(runs))
             rest == batch_process(r.st, Tail(queries), Tail(runs))
         IN  [st |-> rest.st,
              results |-> batch_entry(Head(queries), r.out) \o rest.results]

\* a new store, with the classifier's initial state
EmptyStore ==
    [tickets |-> <<>>, routing_log |-> <<>>, learning_patterns |-> <<>>,
     sqlite_sequence |-> [tickets |-> 0, learning_feedback |-> 0],
     learned_keywords |-> [intent \in IntentSet |-> <<>>],
     team_mapping |-> DefaultTeamMapping]

\* the stores a batch starts from: a new one, and one that holds the ticket of an
\* earlier process_query of the same second
BatchStores ==
    {EmptyStore,
     process_query(EmptyStore, [message |-> <<"invoice">>, subject |-> <<"Dispute">>],
                   [unique_id |-> 1, fault |-> "none"]).st}

\* the batches: up to MaxBatch queries, and what the call of each one meets
BatchInputs ==
    UNION {[queries : [1..n -> BatchQuerySet], runs : [1..n -> BatchRuns]] :
               n \in 0..MaxBatch}

InitBatch ==
    /\ now = 0
    /\ last = [op |-> "none", exc |-> FALSE]
    /\ saving = <<>>
    /\ learning_feedback = <<>>
    /\ rIn = NoValue /\ rOut = NoValue /\ cOut = NoValue
    /\ cIn \in BatchInputs
    /\ \E st \in BatchStores :
           /\ tickets = st.tickets
           /\ routing_log = st.routing_log
           /\ learning_patterns = st.learning_patterns
           /\ sqlite_sequence = st.sqlite_sequence
           /\ learned_keywords = st.learned_keywords
           /\ team_mapping = st.team_mapping

BatchProcess ==
    /\ last.op = "none"
    /\ \E r \in {batch_process(StoreState, cIn.queries, cIn.runs)} :
           /\ tickets' = r.st.tickets
           /\ routing_log' = r.st.routing_log
           /\ learning_patterns' = r.st.learning_patterns
           /\ sqlite_sequence' = r.st.sqlite_sequence
           /\ learned_keywords' = r.st.learned_keywords
           /\ team_mapping' = r.st.team_mapping
           /\ last' = [op |-> "batch", exc |-> FALSE, queries |-> cIn.queries,
                       runs |-> cIn.runs, results |-> r.results]
    /\ UNCHANGED <<learning_feedback, now, routeVars, classVars, saving>>

NextBatch == BatchProcess

SpecBatch == InitBatch /\ [][NextBatch]_vars

-----------------------------------------------------------------------------
(* The store with the two remaining writers of tickets and events:          *)
(* TicketManager.update_ticket_status and TicketManager.add_response        *)

NewStatuses == {"in_progress", "resolved"}

Responses == {<<"Thanks">>}

\* Database.update_ticket(ticket_id, {column: value})
update_column(rows, ticket_id, column, value) ==
    [i \in 1..Len(rows) |-> IF rows[i].ticket_id = ticket_id
                            THEN [rows[i] EXCEPT ![column] = value] ELSE rows[i]]

\* TicketManager.update_ticket_status(ticket_id, new_status)
UpdateTicketStatus ==
    \E ticket_id \in TicketIds(tickets) \cup {UnknownId}, new_status \in NewStatuses :
        /\ tickets' = update_column(tickets, ticket_id, "status", new_status)
        /\ routing_log' = log_routing_event(routing_log, ticket_id, "status_changed",
                                            [new_status |-> new_status])
        /\ last' = [op |-> "update_ticket_status", exc |-> FALSE]
        /\ UNCHANGED <<learning_feedback, learning_patterns, sqlite_sequence, now,
                       classifierVars, routeVars, classVars, saving>>

\* TicketManager.add_response(ticket_id, response)
AddResponse ==
    \E ticket_id \in TicketIds(tickets) \cup {UnknownId}, response \in Responses :
        /\ tickets' = update_column(tickets, ticket_id, "response", response)
        /\ routing_log' = log_routing_event(routing_log, ticket_id, "response_added",
                                            [response_length |-> Len(response)])
        /\ last' = [op |-> "add_response", exc |-> FALSE]
        /\ UNCHANGED <<learning_feedback, learning_patterns, sqlite_sequence, now,
                       classifierVars, routeVars, classVars, saving>>

\* the stores an operation starts from: a new one, one that holds the ticket of
\* an earlier process_query, two whose process_query failed after the ticket was
\* written, and one that holds the tickets of two
TicketStores ==
    LET query == [message |-> <<"invoice">>, subject |-> <<"Dispute">>]
        first(fault) == process_query(EmptyStore, query,
                                      [unique_id |-> 1, fault |-> fault]).st
    IN  {EmptyStore, first("none"), first("ticket_created"), first("routing_completed"),
         process_query(first("none"), [message |-> <<"invoice">>],
                       [unique_id |-> 2, fault |-> "none"]).st}

InitTickets ==
    /\ now = 0
    /\ last = [op |-> "none", exc |-> FALSE]
    /\ saving = <<>>
    /\ learning_feedback = <<>>
    /\ rIn = NoValue /\ rOut = NoValue
    /\ cIn = NoValue /\ cOut = NoValue
    /\ \E st \in TicketStores :
           /\ tickets = st.tickets
           /\ routing_log = st.routing_log
           /\ learning_patterns = st.learning_patterns
           /\ sqlite_sequence = st.sqlite_sequence
           /\ learned_keywords = st.learned_keywords
           /\ team_mapping = st.team_mapping

\* one operation on the store drawn
NextTickets ==
    \/ last.op = "none" /\ Process
    \/ last.op = "none" /\ AssignTicket
    \/ last.op = "none" /\ UpdateTicketStatus
    \/ last.op = "none" /\ AddResponse
    \/ last.op = "none" /\ DeleteTicket
    \/ last.op = "none" /\ DeleteAllTickets
    \/ last.op = "none" /\ DeleteOlderTickets
    \/ last.op = "none" /\ AnalyzeAndUpdatePatterns

SpecTickets == InitTickets /\ [][NextTickets]_vars

-----------------------------------------------------------------------------
(* Concurrent pattern writes.  The batch analysis and the learn_from_ticket *)
(* calls of requests in flight run in threads of their own, each save on a  *)
(* connection of its own: save_learning_pattern is a SELECT of the key's    *)
(* row, then an UPDATE of that row or an INSERT, committed, and the saves   *)
(* of the other threads fall between the two statements.                    *)

MaxLearners == 2

\* thread 0 runs analyze_and_update_patterns, the others learn_from_ticket
RaceThreads == 0..MaxLearners

\* the saves of the analysis over two tickets "invoice" of billing_finance with
\* Finance Team (its second and third loop), and those of learn_from_ticket on one
AnalyzeSaves == << <<"team_intent", "Finance Team", "billing_finance", 20>>,
                   <<"intent_keyword", "billing_finance", "invoice", 40>> >>

LearnSaves == << <<"intent_keyword", "billing_finance", "invoice", 100>>,
                 <<"team_intent", "Finance Team", "billing_finance", 100>> >>

NoRow == [id |-> 0]

\* the pattern table before the saves: empty, or the rows of two earlier tickets
RaceStores ==
    {<<>>,
     SaveKeywords(SaveKeywords(<<>>, "billing_finance", <<"invoice">>, 100),
                  "billing_finance", <<"invoice">>, 100),
     learn_from_ticket(
         learn_from_ticket(<<>>, [subject |-> <<>>, message |-> <<"invoice">>,
                                  intent |-> "billing_finance",
                                  assigned_team |-> "Finance Team"]).val,
         [subject |-> <<>>, message |-> <<"invoice">>, intent |-> "billing_finance",
          assigned_team |-> "Finance Team"]).val}

InitRace ==
    /\ ClassifierInit
    /\ rIn = NoValue /\ rOut = NoValue
    /\ cIn = NoValue /\ cOut = NoValue
    /\ tickets = <<>> /\ routing_log = <<>> /\ learning_feedback = <<>>
    /\ sqlite_sequence = [tickets |-> 0, learning_feedback |-> 0]
    /\ now = 0
    /\ last = [op |-> "none", exc |-> FALSE]
    /\ learning_patterns \in RaceStores
    /\ saving = [t \in RaceThreads |->
                    [pc |-> "select", existing |-> NoRow,
                     todo |-> IF t = 0 THEN AnalyzeSaves ELSE LearnSaves]]

\* save_learning_pattern, the SELECT and fetchone
SelectPattern(t) ==
    LET save == Head(saving[t].todo)
        found == PatternIndex(learning_patterns, save[1], save[2], save[3])
    IN  /\ saving[t].pc = "select"
        /\ saving' = [saving EXCEPT
                         ![t].pc = "write",
                         ![t].existing =
                             IF found = {} THEN NoRow
                             ELSE LET i == CHOOSE i \in found : TRUE
                                  IN  [id |-> i,
                                       usage_count |-> learning_patterns[i].usage_count]]
        /\ UNCHANGED <<learning_patterns, last, tickets, routing_log, learning_feedback,
                       sqlite_sequence, now, classifierVars, routeVars, classVars>>

\* save_learning_pattern, the UPDATE or the INSERT with its commit: the INSERT of
\* a key another thread inserted meanwhile fails on the UNIQUE constraint, and the
\* exception ends the thread's call
WritePattern(t) ==
    LET save == Head(saving[t].todo)
        existing == saving[t].existing
        found == PatternIndex(learning_patterns, save[1], save[2], save[3])
        raises == existing = NoRow /\ found # {}
        rest == Tail(saving[t].todo)
    IN  /\ saving[t].pc = "write"
        /\ learning_patterns' =
               IF existing # NoRow
               THEN [learning_patterns EXCEPT
                        ![existing.id].usage_count = existing.usage_count + 1,
                        ![existing.id].confidence = save[4]]
               ELSE IF raises THEN learning_patterns
               ELSE Append(learning_patterns,
                           [pattern_type |-> save[1], pattern_key |-> save[2],
                            pattern_value |-> save[3], confidence |-> save[4],
                            usage_count |-> 1])
        /\ saving' = [saving EXCEPT
                         ![t].pc = IF raises THEN "failed"
                                   ELSE IF rest = <<>> THEN "done" ELSE "select",
                         ![t].todo = rest,
                         ![t].existing = NoRow]
        /\ last' = [op |-> "save_learning_pattern", exc |-> raises, thread |-> t,
                    save |-> save,
                    usage_count |-> IF existing # NoRow THEN existing.usage_count + 1
                                    ELSE 1]
        /\ UNCHANGED <<tickets, routing_log, learning_feedback, sqlite_sequence, now,
                       classifierVars, routeVars, classVars>>

NextRace == \E t \in RaceThreads : SelectPattern(t) \/ WritePattern(t)

SpecRace == InitRace /\ [][NextRace]_vars

-----------------------------------------------------------------------------
(* Claims about the routing decision (SpecRoute) *)

\* C1: every call of the routing decision with confidence < 0.6 returns
\* needs_review = true and final_team = "Triage Team", whatever the intent, urgency,
\* sentiment, entities and assigned team, the billing-dispute override included.
C1_TriageGate ==
    (rOut # NoValue /\ rIn.confidence < 60)
        => (rOut.needs_review /\ rOut.final_team = "Triage Team")

\* a low-confidence billing_finance call whose sentiment triggers the override
C1_Witness ==
    /\ rOut # NoValue
    /\ rIn.confidence < 60
    /\ rIn.intent = "billing_finance"
    /\ rIn.sentiment = "urgent"
    /\ rOut.final_team = "Triage Team"

-----------------------------------------------------------------------------
(* Claims about the fallback classification (SpecFallback) *)

\* C3: in the fallback classification every text that contains a dispute keyword
\* is classified compliance_regulatory, whatever other keywords it contains.
C3_DisputeIsCompliance ==
    (cOut # NoValue /\ IsDispute(lower(full_text(cIn.subject, cIn.message))))
        => cOut.val.intent = "compliance_regulatory"

-----------------------------------------------------------------------------
(* Claims about classify_intent (SpecClassify) *)

\* the AI response lacks intent or urgency, cannot be parsed, carries an urgency
\* outside the closed set, or the call raised
AiFailed(ai) ==
    \/ ai.kind \in {"raise", "nojson", "badjson"}
    \/ /\ ai.kind = "json"
       /\ \/ "intent" \notin DOMAIN ai.obj
          \/ "urgency" \notin DOMAIN ai.obj
          \/ ai.obj["urgency"] \notin Urgencies

\* C4: when the AI response lacks intent or urgency, cannot be parsed, carries an
\* urgency outside the closed set, or the AI call raises, classify returns what the
\* keyword fallback computes for the same subject and message.
\* (The reasoning text is advisory; the other six fields are compared.)
C4_FailureGivesFallback ==
    (cOut # NoValue /\ AiFailed(cIn.ai))
        => LET fb == _fallback_classification(full_text(cIn.subject, cIn.message),
                                              learned_keywords, team_mapping)
           IN  /\ ~cOut.exc
               /\ \A f \in ResultFields \ {"reasoning"} : cOut.val[f] = fb[f]

\* C5: every result classify returns, on the AI path and on the fallback path,
\* has its intent among the six categories and its urgency among the four levels.
C5_ClosedSets ==
    cOut # NoValue
        => /\ ~cOut.exc
           /\ cOut.val["intent"] \in IntentSet
           /\ cOut.val["urgency"] \in Urgencies

\* C6: classify never raises: whatever the message, the subject and the AI call's
\* outcome, it returns a result carrying intent, urgency, confidence, sentiment,
\* key_entities, reasoning and assigned_team.
C6_AlwaysAResult ==
    cOut # NoValue => (~cOut.exc /\ ResultFields \subseteq DOMAIN cOut.val)

\* the AI returned an object whose intent cannot be a dict key, and without the
\* optional fields: the lookup raised and the fallback produced the result
C6_Witness ==
    /\ cOut # NoValue
    /\ cIn.ai.kind = "json"
    /\ DOMAIN cIn.ai.obj = {"intent", "urgency"}
    /\ cIn.ai.obj["intent"] = Unhashable
    /\ ~cOut.exc
    /\ cOut.val["confidence"] = 50

-----------------------------------------------------------------------------
(* Claims about the router over its store (Spec) *)

\* C2: a successful batch analysis that directly follows a successful batch analysis,
\* with no other operation on the store in between, leaves every pattern's
\* confidence and usage_count as the first left them.
C2_AnalysisIdempotent ==
    [][(/\ last.op = "analyze" /\ ~last.exc
        /\ last'.op = "analyze" /\ ~last'.exc)
           => learning_patterns' = learning_patterns]_vars

NoRowsOf(ticket_id, rows) == \A i \in 1..Len(rows) : rows[i].ticket_id # ticket_id

Deletions == {"delete_ticket", "delete_all_tickets", "delete_older_tickets"}

\* C7: whenever a step removes a ticket, no routing event and no feedback record
\* with its ticket_id is left after the step; and a deletion that raises leaves
\* tickets, routing events and feedback as they were.
C7_DeletionCascades ==
    [][/\ \A ticket_id \in TicketIds(tickets) \ TicketIds(tickets') :
              /\ NoRowsOf(ticket_id, routing_log')
              /\ NoRowsOf(ticket_id, learning_feedback')
       /\ (last'.op \in Deletions /\ last'.exc)
              => UNCHANGED <<tickets, routing_log, learning_feedback>>]_vars

NotReassigned(rows, log) ==
    LET Kept(t) == ~was_reassigned(log, t.ticket_id)
    IN  SelectSeq(rows, Kept)

\* C8: the patterns a batch analysis writes are those of the tallies over the
\* tickets that were never reassigned: a reassigned ticket counts neither for
\* its (intent, team) nor for its (intent, keyword) pairs.
C8_ReassignedNotCounted ==
    [][(last'.op = "analyze" /\ learning_patterns' # learning_patterns)
           => learning_patterns' =
                  analyze_and_update_patterns(NotReassigned(tickets, routing_log),
                                              routing_log, learning_patterns).val]_vars

HasPattern(type, key, value, confidence) ==
    \E i \in PatternIndex(learning_patterns, type, key, value) :
        learning_patterns[i].confidence = confidence

\* the keywords of a ticket's message and subject, a subject that was not given
\* having none
KeywordsOf(ticket) ==
    TicketKeywords([ticket EXCEPT !.subject = IF @ = None THEN <<>> ELSE @])

\* C9: right after process returned a result, the pattern store holds, with
\* confidence 1.0, the team_intent pattern of the ticket's (assigned_team, intent)
\* and an intent_keyword pattern for each keyword of its message and subject
\* (more than three letters, no stop word), whether or not a subject was given.
C9_ProcessLearns ==
    (last.op = "process" /\ ~last.exc)
        => LET ticket == get_ticket(tickets, last.result.ticket_id)
               keywords == KeywordsOf(ticket)
           IN  /\ HasPattern("team_intent", ticket.assigned_team, ticket.intent, 100)
               /\ \A i \in 1..Len(keywords) :
                      HasPattern("intent_keyword", ticket.intent, keywords[i], 100)

\* C10: whenever a step persists a ticket, the step is a process call that returns
\* a complete result for that ticket (status "routed"); no process call that
\* raises leaves a ticket behind.
C10_PersistedMeansReturned ==
    [][\A ticket_id \in TicketIds(tickets') \ TicketIds(tickets) :
           /\ last'.op = "process" /\ ~last'.exc
           /\ last'.result.ticket_id = ticket_id
           /\ last'.result.status = "routed"]_vars

-----------------------------------------------------------------------------
\* C11 (as the code has it): with the AI call failing, the message "Our monthly
\* invoice for August shows an extra $120 charge. Can you please review it?" with
\* no subject is classified billing_finance with team Finance Team, the amount is
\* reported as entity error_120, and the routing decision keeps Finance Team as
\* primary_team and gives final_team Compliance Team.
C11_InvoiceCase == cIn # NoValue /\ cIn.subject = None /\ cIn.message = InvoiceMessage

-----------------------------------------------------------------------------
\* the numbers of three digits in a text, in text order (the 120 of "$120" is one)
C12_Number(w) == IF w = "$120" THEN <<"120">>
                 ELSE IF w \in ThreeDigitCodes THEN <<w>> ELSE <<>>

C12_Numbers(text) == Flatten([i \in 1..Len(text) |-> C12_Number(text[i])])

C12_Text == full_text(cIn.subject, cIn.message)

\* C12 (as the code has it): key_entities is cut to its first five entries, the
\* error codes first: the fallback reports error_<n> for each of the first five
\* three-digit numbers n of the combined text, in text order, so every number of a
\* text with at most five is reported.
C12_FirstFiveCodesReported ==
    (cIn # NoValue /\ cOut # NoValue)
        => LET numbers == C12_Numbers(C12_Text)
           IN  /\ Len(cOut.val.key_entities) >= Min(5, Len(numbers))
               /\ \A k \in 1..Min(5, Len(numbers)) :
                      cOut.val.key_entities[k] = "error_" \o numbers[k]

C12_Witness ==
    /\ cIn # NoValue /\ cOut # NoValue
    /\ Len(C12_Numbers(C12_Text)) > 5
    /\ \E i \in 1..Len(cIn.message) : cIn.message[i] = "$120"
    /\ cOut.val.key_entities = <<"error_404", "error_401", "error_402", "error_403", "error_404">>

\* C12 (as stated): for every 3-digit token of the combined text, whatever their
\* number, key_entities contains error_<that token>.
C12_EveryCodeReported ==
    (cIn # NoValue /\ cOut # NoValue)
        => \A i \in 1..Len(C12_Text) :
               C12_Text[i] \in ThreeDigitCodes
                   => \E k \in 1..Len(cOut.val.key_entities) :
                          cOut.val.key_entities[k] = "error_" \o C12_Text[i]

-----------------------------------------------------------------------------
(* Claims about the pattern store (Spec) *)

C13_SameKey(a, b) == /\ a.pattern_type = b.pattern_type
                     /\ a.pattern_key = b.pattern_key
                     /\ a.pattern_value = b.pattern_value

\* the confidence the step's operation supplies for a row it saves: 1.0 from
\* learn_from_ticket and learn_from_reassignment, the tally's from the analysis
C13_Supplied(row) ==
    IF last'.op # "analyze" THEN 100
    ELSE IF row.pattern_type = "team_intent"
    THEN Min(100, 10 * Cardinality({i \in 1..Len(tickets) :
                      /\ tickets[i].intent = row.pattern_value
                      /\ tickets[i].assigned_team = row.pattern_key
                      /\ ~was_reassigned(routing_log, tickets[i].ticket_id)}))
    ELSE Min(100, 20 * Cardinality({i \in 1..Len(tickets) :
                      /\ tickets[i].intent = row.pattern_key
                      /\ \E k \in 1..Len(KeywordsOf(tickets[i])) :
                             KeywordsOf(tickets[i])[k] = row.pattern_value}))

\* C13: the pattern store never holds two rows with the same (pattern_type,
\* pattern_key, pattern_value); a row is never removed or re-keyed; a save on an
\* existing key adds exactly 1 to its usage_count and sets its confidence to the
\* supplied value, and a save on a new key adds one row with usage_count 1.
C13_UpsertByKey ==
    [][/\ \A i, j \in 1..Len(learning_patterns') :
              C13_SameKey(learning_patterns'[i], learning_patterns'[j]) => i = j
       /\ Len(learning_patterns') >= Len(learning_patterns)
       /\ \A i \in 1..Len(learning_patterns) :
              /\ C13_SameKey(learning_patterns'[i], learning_patterns[i])
              /\ \/ learning_patterns'[i] = learning_patterns[i]
                 \/ /\ learning_patterns'[i].usage_count =
                            learning_patterns[i].usage_count + 1
                    /\ learning_patterns'[i].confidence =
                            C13_Supplied(learning_patterns[i])
       /\ \A i \in (Len(learning_patterns) + 1)..Len(learning_patterns') :
              /\ learning_patterns'[i].usage_count = 1
              /\ learning_patterns'[i].confidence = C13_Supplied(learning_patterns'[i])]_vars

C13_Witness ==
    /\ last.op = "analyze" /\ ~last.exc
    /\ \E i \in 1..Len(learning_patterns) :
           /\ learning_patterns[i].usage_count = 3
           /\ learning_patterns[i].confidence = 40
    /\ \E i \in 1..Len(learning_patterns) : learning_patterns[i].usage_count = 1

-----------------------------------------------------------------------------
(* Claims about concurrent pattern writes (SpecRace) *)

\* C14: under every interleaving of the analysis with concurrent learn_from_ticket
\* calls on the same pattern keys, no pattern write raises, the store holds one row
\* per key, and after a write the key's row has the confidence and the usage_count
\* that write wrote.
C14_RacingWritesSucceed ==
    saving # <<>>
        => /\ \A t \in RaceThreads : saving[t].pc # "failed"
           /\ \A i, j \in 1..Len(learning_patterns) :
                  C13_SameKey(learning_patterns[i], learning_patterns[j]) => i = j
           /\ (last.op = "save_learning_pattern" /\ ~last.exc)
                  => \E i \in PatternIndex(learning_patterns, last.save[1], last.save[2],
                                            last.save[3]) :
                         /\ learning_patterns[i].confidence = last.save[4]
                         /\ learning_patterns[i].usage_count = last.usage_count

-----------------------------------------------------------------------------
(* Claims about the router over its store (Spec), continued *)

\* C15: across learn_from_ticket, learn_from_reassignment and the batch analysis
\* the confidence of a pattern the store holds never decreases.
C15_ConfidenceNeverDecreases ==
    [][\A i \in 1..Len(learning_patterns) :
           /\ i <= Len(learning_patterns')
           /\ learning_patterns'[i].confidence >= learning_patterns[i].confidence]_vars

HasEvent(log, ticket_id, event_type) ==
    \E i \in 1..Len(log) : /\ log[i].ticket_id = ticket_id
                           /\ log[i].event_type = event_type

C19_NoIdCollision ==
    /\ \A i, j \in 1..Len(tickets) : tickets[i].ticket_id = tickets[j].ticket_id => i = j
    /\ ~(last.op = "process" /\ last.exc /\ last.error = "IntegrityError")

\* C18: assign_ticket(t, new_team) on a ticket t the store holds leaves t with
\* assigned_team new_team, appends exactly one event, a ticket_reassigned of t, and
\* exactly one feedback record, of t, with the team t held before as original_team
\* and new_team as corrected_team, and leaves a team_intent pattern of (new_team,
\* t's intent) with confidence 1.0.
C18_Reassignment ==
    [][(/\ last'.op = "assign"
        /\ routing_log' # routing_log
        /\ routing_log'[Len(routing_log')].ticket_id \in TicketIds(tickets))
           => LET event == routing_log'[Len(routing_log')]
                  before == get_ticket(tickets, event.ticket_id)
                  new_team == event.event_data.new_team
                  record == learning_feedback'[Len(learning_feedback')]
              IN  /\ get_ticket(tickets', event.ticket_id).assigned_team = new_team
                  /\ routing_log' = Append(routing_log, event)
                  /\ event.event_type = "ticket_reassigned"
                  /\ learning_feedback' = Append(learning_feedback, record)
                  /\ record.ticket_id = event.ticket_id
                  /\ record.original_team = before.assigned_team
                  /\ record.corrected_team = new_team
                  /\ \E i \in PatternIndex(learning_patterns', "team_intent", new_team,
                                            before.intent) :
                         learning_patterns'[i].confidence = 100]_vars

C18_Witness ==
    /\ last.op = "assign"
    /\ \E i \in 1..Len(learning_feedback) :
           /\ learning_feedback[i].original_team = "Compliance Team"
           /\ learning_feedback[i].corrected_team = "Tech Support"
           /\ get_ticket(tickets, learning_feedback[i].ticket_id).assigned_team
                  = "Tech Support"
           /\ HasPattern("team_intent", "Tech Support", "compliance_regulatory", 100)

-----------------------------------------------------------------------------
(* Claims about the routing decision (SpecRoute), continued *)

\* some key entity contains one of the dispute words, whatever its case
C20_DisputeEntity(key_entities) ==
    \E i \in 1..Len(key_entities) :
        LowerSubstrings(key_entities[i])
            \cap {"dispute", "discrepancy", "wrong", "incorrect", "error"} # {}

\* C20: primary_team is always the assigned_team input; with confidence >= 0.6,
\* final_team is "Compliance Team" when the intent is billing_finance and either a
\* key entity contains a dispute word or the sentiment is negative or urgent, and
\* the assigned_team input in every other case.
C20_BillingDisputeOverride ==
    (rOut # NoValue /\ cOut = NoValue)
        => /\ rOut.primary_team = rIn.assigned_team
           /\ rIn.confidence >= 60
                  => rOut.final_team =
                         IF /\ rIn.intent = "billing_finance"
                            /\ \/ C20_DisputeEntity(rIn.key_entities)
                               \/ rIn.sentiment \in {"negative", "urgent"}
                         THEN "Compliance Team"
                         ELSE rIn.assigned_team

C20_Witness ==
    /\ rOut # NoValue /\ cOut = NoValue
    /\ rIn.confidence = 60 /\ rIn.intent = "billing_finance"
    /\ rIn.sentiment = "urgent" /\ rIn.key_entities = <<>>
    /\ rIn.assigned_team = "Finance Team"
    /\ rOut.final_team = "Compliance Team" /\ rOut.primary_team = "Finance Team"

-----------------------------------------------------------------------------
(* Claims about batch_process (SpecBatch) *)

C16_Raises(i) ==
    \/ "message" \notin DOMAIN last.queries[i]
    \/ last.runs[i].fault # "none"

C16_IsError(entry) == "error" \in DOMAIN entry

\* C16: batch_process returns one entry per query, in the order of the queries; the
\* entry of a query whose processing raised is an error descriptor, the error text
\* with the query itself, and the entry of every other query is the result of its
\* own processing, status "routed", with its ticket stored.
C16_OneEntryPerQuery ==
    last.op = "batch"
        => /\ Len(last.results) = Len(last.queries)
           /\ \A i \in 1..Len(last.queries) :
                  LET query == last.queries[i]
                      entry == last.results[i]
                  IN  /\ C16_Raises(i) => C16_IsError(entry)
                      /\ C16_IsError(entry)
                             => /\ DOMAIN entry = {"error", "query"}
                                /\ entry.query = query
                                /\ entry.error =
                                       IF "message" \notin DOMAIN query THEN "KeyError"
                                       ELSE IF last.runs[i].fault = "none"
                                       THEN "IntegrityError"
                                       ELSE entry.error
                      /\ ~C16_IsError(entry)
                             => /\ entry.status = "routed"
                                /\ get_ticket(tickets, entry.ticket_id).message
                                       = query.message
                                /\ get_ticket(tickets, entry.ticket_id).subject
                                       = QueryGet(query, "subject")
                                /\ HasEvent(routing_log, entry.ticket_id,
                                            "routing_completed")

C16_Witness ==
    /\ last.op = "batch"
    /\ Len(last.queries) = 2
    /\ "message" \notin DOMAIN last.queries[1]
    /\ C16_IsError(last.results[1])
    /\ ~C16_IsError(last.results[2])
    /\ last.results[2].status = "routed"

-----------------------------------------------------------------------------
(* Claims about the routing decision (SpecRoute), continued *)

\* C21: whenever the urgency handed to the routing decision is critical or high,
\* the decision has escalate true, whatever the confidence, the sentiment, the
\* intent and the entities.
C21_UrgentEscalates ==
    (rOut # NoValue /\ cOut = NoValue /\ rIn.urgency \in {"critical", "high"})
        => rOut.escalate

C21_Witness ==
    /\ rOut # NoValue /\ cOut = NoValue
    /\ rIn.urgency = "high" /\ rIn.confidence = 85 /\ rIn.sentiment = "neutral"
    /\ ~rOut.needs_review
    /\ rOut.escalate

-----------------------------------------------------------------------------
(* Claims about the fallback classification (SpecFallback), continued *)

C22_Text == lower(full_text(cIn.subject, cIn.message))

\* the score a category holds in the table: its keyword total with the context
\* bonus, or the dispute seed of compliance_regulatory when that total is 0
C22_Score(intent) ==
    LET total == CategoryScore(intent, intent_categories(intent, learned_keywords),
                               C22_Text)
    IN  IF total > 0 THEN total
        ELSE IF intent = "compliance_regulatory" /\ IsDispute(C22_Text)
        THEN DisputeScore ELSE 0

\* the score table: the score each category holds
C22_Scores == [intent \in IntentSet |-> C22_Score(intent)]

C22_Best(scores) ==
    CHOOSE best \in {scores[intent] : intent \in IntentSet} :
        \A intent \in IntentSet : scores[intent] <= best

C22_WinningScore == C22_Best(C22_Scores)

\* C22: every fallback classification has a confidence from 0.5 to 0.85: it is
\* min(0.85, 0.5 + 0.05 * winning score) when some category holds a score, and
\* exactly 0.5, with intent general_support, when none does.
C22_ConfidenceRange ==
    cOut # NoValue
        => \A scores \in {C22_Scores} : \A best \in {C22_Best(scores)} :
               /\ cOut.val.confidence \in 50..85
               /\ IF best > 0
                  THEN /\ cOut.val.confidence =
                              (IF 50 + 5 * best > 85 THEN 85 ELSE 50 + 5 * best)
                       /\ scores[cOut.val.intent] = best
                  ELSE /\ cOut.val.confidence = 50
                       /\ cOut.val.intent = "general_support"

C22_Witness ==
    /\ cOut # NoValue
    /\ C22_WinningScore > 7
    /\ cOut.val.confidence = 85

C25_Rank(intent) == CHOOSE i \in 1..Len(Intents) : Intents[i] = intent

\* the categories that hold the highest score of the table
C25_TiedIn(scores) ==
    LET best == C22_Best(scores)
    IN  {intent \in IntentSet : scores[intent] = best}

C25_Tied == C25_TiedIn(C22_Scores)

C25_FirstOf(tied) == CHOOSE intent \in tied :
                         \A other \in tied : C25_Rank(intent) <= C25_Rank(other)

-----------------------------------------------------------------------------
(* Claims about the tickets and their events (SpecTickets) *)

C23_Deletion == {"delete_ticket", "delete_all_tickets", "delete_older_tickets"}

\* C23: routing events are append-only: a process, a status update, a
\* reassignment, a response attachment or a learning operation leaves every event
\* of the log as it was, in its place, and at most appends events; only the
\* deletion of tickets removes events.
C23_EventsAppendOnly ==
    [][last'.op \notin C23_Deletion
          => /\ Len(routing_log') >= Len(routing_log)
             /\ SubSeq(routing_log', 1, Len(routing_log)) = routing_log]_vars

C23_Witness ==
    /\ last.op = "update_ticket_status"
    /\ Len(routing_log) > 3
    /\ routing_log[1].event_type = "ticket_created"
    /\ routing_log[Len(routing_log)].event_type = "status_changed"
    /\ routing_log[Len(routing_log)].ticket_id = routing_log[1].ticket_id
    /\ get_ticket(tickets, routing_log[1].ticket_id).status = "resolved"

\* C26: every routing event and every feedback record of the store names a
\* ticket_id that the tickets table holds, after any creation, status update,
\* reassignment, response attachment and deletion, the calls that name a ticket_id
\* no ticket has included.
C26_ReferencesExist ==
    /\ \A i \in 1..Len(routing_log) : routing_log[i].ticket_id \in TicketIds(tickets)
    /\ \A i \in 1..Len(learning_feedback) :
           learning_feedback[i].ticket_id \in TicketIds(tickets)

-----------------------------------------------------------------------------
(* Claims about process_query and the store (Spec), continued *)

\* the events of a process_query of this ticket when nothing fails
C24_Events(ticket_id, escalate) ==
    LET Event(type) == [ticket_id |-> ticket_id, event_type |-> type]
    IN  <<Event("ticket_created")>>
            \o (IF escalate THEN <<Event("ticket_escalated")>> ELSE <<>>)
            \o <<Event("routing_completed")>>

C24_Appended == SubSeq(routing_log', Len(routing_log) + 1, Len(routing_log'))

C24_Heads(events) ==
    [i \in 1..Len(events) |-> [ticket_id |-> events[i].ticket_id,
                                event_type |-> events[i].event_type]]

C24_IsPrefix(s, t) == Len(s) <= Len(t) /\ s = SubSeq(t, 1, Len(s))

\* C24: a successful process_query writes the ticket and appends, for its ticket
\* and in this order, ticket_created, then ticket_escalated exactly when the
\* routing decision has escalate true, then one routing_completed; a process_query
\* that fails after the ticket was written has appended a part of that list, from
\* its start, and nothing else; no other step appends events of these three types.
C24_EventOrder ==
    [][/\ \A ticket_id \in TicketIds(tickets') \ TicketIds(tickets) :
              /\ last'.op = "process"
              /\ routing_log' = routing_log \o C24_Appended
              /\ IF last'.exc
                 THEN \E escalate \in BOOLEAN :
                          /\ C24_IsPrefix(C24_Heads(C24_Appended),
                                          C24_Events(ticket_id, escalate))
                          /\ C24_Heads(C24_Appended) # C24_Events(ticket_id, escalate)
                 ELSE /\ last'.result.ticket_id = ticket_id
                      /\ C24_Heads(C24_Appended)
                             = C24_Events(ticket_id, last'.result.routing.escalate)
       /\ TicketIds(tickets') \subseteq TicketIds(tickets)
              => \A i \in (Len(routing_log) + 1)..Len(routing_log') :
                     routing_log'[i].event_type
                         \notin {"ticket_created", "ticket_escalated",
                                  "routing_completed"}]_vars

C24_Witness ==
    /\ last.op = "process" /\ ~last.exc
    /\ last.result.routing.escalate
    /\ Len(routing_log) >= 3
    /\ C24_Heads(SubSeq(routing_log, Len(routing_log) - 2, Len(routing_log)))
           = C24_Events(last.result.ticket_id, TRUE)

-----------------------------------------------------------------------------
(* Claims about process_query step by step (SpecTriage), continued *)

\* C27: for every ticket process_query produced, the response_time and the notify
\* list of its routing decision are the escalation-table entries of the urgency
\* stored on the ticket, and its escalation record has escalation_time "immediate"
\* exactly when the decision's response_time is "immediate".
C27_SlaOfStoredUrgency ==
    (last.op = "process" /\ ~last.exc)
        => LET ticket == get_ticket(tickets, last.result.ticket_id)
               routing == last.result.routing
           IN  /\ routing.response_time = escalation_rules(ticket.urgency).response_time
               /\ routing.notify = escalation_rules(ticket.urgency).notify
               /\ routing.escalate
                      => ((last.result.escalation.escalation_time = "immediate")
                             = (routing.response_time = "immediate"))


-----------------------------------------------------------------------------
(* Tickets, the learning analysis and the classifier refresh it ends with   *)

LearnMessages == {<<"review">>, <<"help">>}

LearnSubjects == {<<"monthly">>}

\* RouterAgent.process_query on the messages above, no statement failing
ProcessQuery ==
    \E message \in LearnMessages, subject \in LearnSubjects, ai \in ProcessAi :
        \E classification \in {classify_intent(message, subject, ai,
                                               learned_keywords, team_mapping).val} :
            \E unique_id \in 1..MaxUniqueId :
                RouteAndStore("email", message, subject, classification, unique_id, "none")

\* POST /api/learning/analyze: analyze_and_update_patterns(), then
\* IntentClassifier.update_from_learning(); an exception in the analysis skips the refresh
AnalyzeLearning ==
    LET r == analyze_and_update_patterns(tickets, routing_log, learning_patterns)
    IN  /\ BelowUsageCap
        /\ learning_patterns' = IF r.exc THEN learning_patterns ELSE r.val
        /\ learned_keywords' = IF r.exc THEN learned_keywords
                               ELSE _load_learned_keywords(learned_keywords, r.val)
        /\ team_mapping' = IF r.exc THEN team_mapping
                           ELSE _load_learned_team_mappings(team_mapping, r.val)
        /\ last' = [op |-> "analyze_learning", exc |-> r.exc]
        /\ UNCHANGED <<tickets, routing_log, learning_feedback, sqlite_sequence, now,
                       routeVars, classVars, saving>>

NextLearn ==
    \/ ProcessQuery
    \/ AssignTicket
    \/ AnalyzeLearning
    \/ Tick

SpecLearn == InitStore /\ [][NextLearn]_vars

\* C28: after a classifier refresh, every intent for which
\* get_learned_team_for_intent returns no team maps to its static default team.
C28_RefreshRestoresDefault ==
    (last.op = "analyze_learning" /\ ~last.exc)
        => \A intent \in IntentSet :
               matching_patterns(learning_patterns, intent) = <<>>
                   => team_mapping[intent] = DefaultTeamMapping[intent]

\* C29: a ticket that process leaves with the Triage Team was classified with a
\* confidence below the triage threshold, whatever was processed, learned and
\* refreshed before.
C29_TriageOnlyBelowThreshold ==
    (last.op = "process" /\ ~last.exc)
        => (get_ticket(tickets, last.result.ticket_id).assigned_team = "Triage Team"
               => last.result.classification["confidence"] < TriageThreshold)


-----------------------------------------------------------------------------
(* Concurrent assign_ticket calls on one ticket.  The server handles each   *)
(* request in a thread of its own (app.run(threaded=True)) and every         *)
(* statement of assign_ticket runs on a connection of its own, committed at *)
(* once: the statements of the other calls fall between any two of them.    *)

MaxAssigners == 2

AssignThreads == 1..MaxAssigners

\* the stores the calls start from: each holds one ticket, of the Compliance Team
\* or of the Finance Team
AssignStores ==
    {process_query(EmptyStore, query, [unique_id |-> 1, fault |-> "none"]).st :
         query \in {[message |-> <<"invoice">>, subject |-> <<"Dispute">>],
                    [message |-> <<"invoice">>]}}

InitAssign ==
    /\ now = 0
    /\ last = [op |-> "none", exc |-> FALSE]
    /\ learning_feedback = <<>>
    /\ rIn = NoValue /\ rOut = NoValue
    /\ cIn = NoValue /\ cOut = NoValue
    /\ \E st \in AssignStores :
           /\ tickets = st.tickets
           /\ routing_log = st.routing_log
           /\ learning_patterns = st.learning_patterns
           /\ sqlite_sequence = st.sqlite_sequence
           /\ learned_keywords = st.learned_keywords
           /\ team_mapping = st.team_mapping
    /\ \E team \in [AssignThreads -> AssignTeams] :
           saving = [t \in AssignThreads |->
                        [pc |-> "read", team |-> team[t], ticket_id |-> tickets[1].ticket_id,
                         original_team |-> None, original_intent |-> None,
                         before |-> None, feedback_id |-> 0,
                         existing |-> NoRow, todo |-> <<>>]]

\* assign_ticket: self.get_ticket(ticket_id), original_team and original_intent
ReadTicket(t) ==
    LET ticket == get_ticket(tickets, saving[t].ticket_id)
    IN  /\ saving[t].pc = "read"
        /\ saving' = [saving EXCEPT
                         ![t].pc = "update",
                         ![t].original_team =
                             IF ticket # NoTicket THEN ticket.assigned_team ELSE "Unknown",
                         ![t].original_intent =
                             IF ticket # NoTicket THEN ticket.intent ELSE None]
        /\ UNCHANGED <<tickets, routing_log, learning_feedback, learning_patterns,
                       sqlite_sequence, now, last, classifierVars, routeVars, classVars>>

\* assign_ticket: self.db.update_ticket(ticket_id, {"assigned_team": team});
\* before keeps the team the ticket held when the UPDATE ran
WriteTeam(t) ==
    /\ saving[t].pc = "update"
    /\ tickets' = update_ticket(tickets, saving[t].ticket_id, saving[t].team)
    /\ saving' = [saving EXCEPT
                     ![t].pc = "log",
                     ![t].before = get_ticket(tickets, saving[t].ticket_id).assigned_team]
    /\ UNCHANGED <<routing_log, learning_feedback, learning_patterns, sqlite_sequence,
                   now, last, classifierVars, routeVars, classVars>>

\* assign_ticket: self.db.log_routing_event(ticket_id, "ticket_reassigned", ...)
LogReassigned(t) ==
    /\ saving[t].pc = "log"
    /\ routing_log' = log_routing_event(routing_log, saving[t].ticket_id,
                                        "ticket_reassigned", [new_team |-> saving[t].team])
    /\ saving' = [saving EXCEPT ![t].pc = "feedback"]
    /\ UNCHANGED <<tickets, learning_feedback, learning_patterns, sqlite_sequence,
                   now, last, classifierVars, routeVars, classVars>>

\* learn_from_reassignment: self.db.save_feedback(...)
SaveFeedback(t) ==
    /\ saving[t].pc = "feedback"
    /\ sqlite_sequence' = [sqlite_sequence EXCEPT !.learning_feedback = @ + 1]
    /\ learning_feedback' = save_feedback(learning_feedback,
                                          sqlite_sequence.learning_feedback + 1,
                                          saving[t].ticket_id, saving[t].original_team,
                                          saving[t].team, saving[t].original_intent)
    /\ saving' = [saving EXCEPT ![t].pc = "reread",
                                ![t].feedback_id = sqlite_sequence.learning_feedback + 1]
    /\ UNCHANGED <<tickets, routing_log, learning_patterns, now, last, classifierVars,
                   routeVars, classVars>>

\* learn_from_reassignment: self.db.get_ticket(ticket_id), and the pattern to save
RereadTicket(t) ==
    LET ticket == get_ticket(tickets, saving[t].ticket_id)
    IN  /\ saving[t].pc = "reread"
        /\ saving' = [saving EXCEPT
                         ![t].pc = IF ticket # NoTicket THEN "select" ELSE "done",
                         ![t].todo = IF ticket # NoTicket
                                     THEN << <<"team_intent", saving[t].team,
                                               ticket.intent, 100>> >>
                                     ELSE <<>>]
        /\ UNCHANGED <<tickets, routing_log, learning_feedback, learning_patterns,
                       sqlite_sequence, now, last, classifierVars, routeVars, classVars>>

NextAssign ==
    \E t \in AssignThreads :
        \/ ReadTicket(t)
        \/ WriteTeam(t)
        \/ LogReassigned(t)
        \/ SaveFeedback(t)
        \/ RereadTicket(t)
        \/ SelectPattern(t)
        \/ WritePattern(t)

SpecAssign == InitAssign /\ [][NextAssign]_vars

C30_Returned == \A t \in AssignThreads : saving[t].pc \in {"done", "failed"}

\* the new_team of the last ticket_reassigned event of the ticket
C30_LastNewTeam(ticket_id) ==
    LET Reassigned(e) == e.ticket_id = ticket_id /\ e.event_type = "ticket_reassigned"
        events == SelectSeq(routing_log, Reassigned)
    IN  events[Len(events)].event_data.new_team

\* C30: when concurrent assign_ticket calls on one ticket have all returned, the
\* ticket's assigned_team is the new_team of its last ticket_reassigned event, and
\* every feedback record's original_team is the team the ticket held immediately
\* before the write of the reassignment it records.
C30_SerializedReassignment ==
    C30_Returned
        => /\ \A t \in AssignThreads :
                  get_ticket(tickets, saving[t].ticket_id).assigned_team
                      = C30_LastNewTeam(saving[t].ticket_id)
           /\ \A t \in AssignThreads : \A i \in 1..Len(learning_feedback) :
                  learning_feedback[i].id = saving[t].feedback_id
                      => learning_feedback[i].original_team = saving[t].before

====
